---- MODULE Spec2Model ----
(***************************************************************************)
(* A model of imxrt-boot-gen: the chip-family clock policy (src/lib.rs),   *)
(* the FlexSPI LUT instruction / sequence encoder (src/flexspi_lut.rs) and *)
(* the lookup table (src/flexspi/lookup.rs, src/serial_flash/lookup.rs).   *)
(*                                                                         *)
(* The library is a set of pure const functions and by-value builders, so  *)
(* each unit is modelled as a small state machine whose Init draws the     *)
(* inputs and whose actions apply the functions / builder calls.           *)
(***************************************************************************)
EXTENDS Integers, Sequences, FiniteSets, TLC

VARIABLES
    unit,        \* which part of the library this behaviour exercises
    chip,        \* Imxrt: the `self` of the clock-policy calls
    opt,         \* SerialClockOption argument of the clock-policy calls
    try_scf,     \* result of try_serial_clock_frequency, or NotCalled
    try_ipscf,   \* result of try_ip_serial_clock_frequency, or NotCalled
    scf,         \* outcome of serial_clock_frequency, or NotCalled
    ipscf,       \* outcome of ip_serial_clock_frequency, or NotCalled
    opcode,      \* Opcode.0 argument of Instr::new
    pads,        \* Pads argument of Instr::new
    operand,     \* operand argument of Instr::new
    instr,       \* the Instr produced by Instr::new, or <<>> before the call
    sb,          \* the SequenceBuilder value: [sequence, offset, panicked]
    sb_log,      \* the instructions passed to instr(), in call order
    built,       \* the Sequence returned by build(), or <<>> before it
    lut,         \* flexspi::LookupTable: 16 Sequences, [table, panicked]
    lut_last,    \* per index, the Sequence last assigned to it (<<>>: none)
    table,       \* serial_flash::LookupTable: the 256-byte array
    table_last,  \* per index, the Sequence last set through command()
    calls,       \* number of lookup-table assignments made so far
    lut_op,      \* the lookup-table call made last: [name, cmd, index, seq]
    api,         \* which FlexSPI block implementation: flexspi / serial_flash
    cb_lut,      \* the lookup table passed to ConfigurationBlock::new
    cb,          \* the FlexSPI configuration block value
    cb_log,      \* the setter calls made on cb, in order: [name, region, arg]
    cfg_feature, \* the chip feature the crate is built with
    nor_input,   \* the FlexSPI block passed to nor::ConfigurationBlock::new
    nor,         \* the nor::ConfigurationBlock value, or <<>> before new()
    nor_log,     \* the calls made on nor, in order: [name, region, arg]
    wt,          \* the wait time constructed last: [fn, d, us, result]
    fb,          \* the FCBBuilder value
    fb_writes    \* the field writes made by FCBBuilder::build, in order

clock_vars == <<chip, opt, try_scf, try_ipscf, scf, ipscf>>
instr_vars == <<opcode, pads, operand, instr>>
seq_vars == <<sb, sb_log, built>>
lut_vars == <<lut, lut_last, table, table_last, calls, lut_op>>
fcb_vars == <<api, cb_lut, cb, cb_log>>
nor_vars == <<cfg_feature, nor_input, nor, nor_log>>
builder_vars == <<wt, fb, fb_writes>>
vars == <<unit, clock_vars, instr_vars, seq_vars, lut_vars, fcb_vars, nor_vars,
          builder_vars>>

(***************************************************************************)
(* Fixed-width integer arithmetic (u8).                                    *)
(***************************************************************************)
U8 == 0 .. 255

RECURSIVE Pow2(_)
Pow2(n) == IF n = 0 THEN 1 ELSE 2 * Pow2(n - 1)

\* `a << n` on a u8: bits shifted out of the byte are discarded.
Shl8(a, n) == (a * Pow2(n)) % 256

\* `a >> n` on a u8.
Shr8(a, n) == a \div Pow2(n)

RECURSIVE BitOr(_, _)
BitOr(a, b) ==
    IF a = 0 THEN b
    ELSE IF b = 0 THEN a
    ELSE (IF (a % 2 = 1) \/ (b % 2 = 1) THEN 1 ELSE 0)
         + 2 * BitOr(a \div 2, b \div 2)

RECURSIVE BitAnd(_, _)
BitAnd(a, b) ==
    IF a = 0 \/ b = 0 THEN 0
    ELSE (IF (a % 2 = 1) /\ (b % 2 = 1) THEN 1 ELSE 0)
         + 2 * BitAnd(a \div 2, b \div 2)

(***************************************************************************)
(* Chip-family clock policy (src/lib.rs).                                  *)
(***************************************************************************)
Imxrt == {"Imxrt1010", "Imxrt1020", "Imxrt1040", "Imxrt1050",
          "Imxrt1060", "Imxrt1160", "Imxrt1170", "Imxrt1180"}

SerialClockOption == {"MHz30", "MHz50", "MHz60", "MHz75", "MHz80",
                      "MHz100", "MHz120", "MHz133", "MHz166"}

NotCalled == [tag |-> "NotCalled", value |-> 0, error |-> "none"]
Ok(v)     == [tag |-> "Ok",        value |-> v, error |-> "none"]
Err(e)    == [tag |-> "Err",       value |-> 0, error |-> e]
Panic(m)  == [tag |-> "Panic",     value |-> 0, error |-> m]

NotSupportedForChip == "NotSupportedForChip"

\* Element 1 => serial clock code, element 2 => IP serial clock code
\* (elements 0 and 1 of the Rust array).  Zero: not supported.
imxrt1010(o) ==
    CASE o = "MHz30"  -> <<1, 1>>
      [] o = "MHz50"  -> <<2, 2>>
      [] o = "MHz60"  -> <<3, 3>>
      [] o = "MHz75"  -> <<4, 4>>
      [] o = "MHz80"  -> <<5, 5>>
      [] o = "MHz100" -> <<6, 6>>
      [] o = "MHz120" -> <<7, 0>>
      [] o = "MHz133" -> <<8, 7>>
      [] o = "MHz166" -> <<0, 0>>

imxrt1020(o) ==
    CASE o = "MHz30"  -> <<1, 1>>
      [] o = "MHz50"  -> <<2, 2>>
      [] o = "MHz60"  -> <<3, 3>>
      [] o = "MHz75"  -> <<4, 4>>
      [] o = "MHz80"  -> <<5, 5>>
      [] o = "MHz100" -> <<6, 6>>
      [] o = "MHz120" -> <<0, 0>>
      [] o = "MHz133" -> <<7, 7>>
      [] o = "MHz166" -> <<8, 8>>

\* Mutant: the 1040 table is the 1020 table (120 MHz missing).
imxrt1040_as1020(o) == imxrt1020(o)

imxrt1040(o) ==
    CASE o = "MHz30"  -> <<1, 1>>
      [] o = "MHz50"  -> <<2, 2>>
      [] o = "MHz60"  -> <<3, 3>>
      [] o = "MHz75"  -> <<4, 4>>
      [] o = "MHz80"  -> <<5, 5>>
      [] o = "MHz100" -> <<6, 6>>
      [] o = "MHz120" -> <<7, 7>>
      [] o = "MHz133" -> <<8, 8>>
      [] o = "MHz166" -> <<9, 9>>

\* Mutant: the 1050 table is the 1040 table (120 MHz present).
imxrt1050_as1040(o) == imxrt1040(o)

imxrt1050(o) == imxrt1020(o)

imxrt1060(o) == imxrt1040(o)

\* Mutant: the 1160 table is the 1010 table.
imxrt1160_as1010(o) == imxrt1010(o)

imxrt1160(o) ==
    CASE o = "MHz30"  -> <<1, 1>>
      [] o = "MHz50"  -> <<2, 2>>
      [] o = "MHz60"  -> <<3, 3>>
      [] o = "MHz75"  -> <<0, 0>>
      [] o = "MHz80"  -> <<4, 4>>
      [] o = "MHz100" -> <<5, 5>>
      [] o = "MHz120" -> <<6, 6>>
      [] o = "MHz133" -> <<7, 7>>
      [] o = "MHz166" -> <<8, 8>>

imxrt1170(o) == imxrt1160(o)

imxrt1180(o) == imxrt1160(o)

\* The `match self { ... }` of both try_ functions.
ChipTable(c, o) ==
    CASE c = "Imxrt1010" -> imxrt1010(o)
      [] c = "Imxrt1020" -> imxrt1020(o)
      [] c = "Imxrt1040" -> imxrt1040(o)
      [] c = "Imxrt1050" -> imxrt1050(o)
      [] c = "Imxrt1060" -> imxrt1060(o)
      [] c = "Imxrt1160" -> imxrt1160(o)
      [] c = "Imxrt1170" -> imxrt1170(o)
      [] c = "Imxrt1180" -> imxrt1180(o)

\* core::num::NonZeroU8::new: None for zero, Some(n) otherwise.
NonZeroU8_new(n) == IF n = 0 THEN "None" ELSE "Some"

\* Mutant: the NonZeroU8 check is dropped, a zero entry becomes Ok(0).
try_serial_clock_frequency_nocheck(c, o) == Ok(ChipTable(c, o)[1])

try_serial_clock_frequency(c, o) ==
    LET code == ChipTable(c, o)[1]
    IN  IF NonZeroU8_new(code) = "None"
        THEN Err(NotSupportedForChip)
        ELSE Ok(code)

try_ip_serial_clock_frequency(c, o) ==
    LET code == ChipTable(c, o)[2]
    IN  IF NonZeroU8_new(code) = "None"
        THEN Err(NotSupportedForChip)
        ELSE Ok(code)

serial_clock_frequency(c, o) ==
    LET r == try_serial_clock_frequency(c, o)
    IN  IF r.tag = "Ok"
        THEN Ok(r.value)
        ELSE Panic("This chip doesn't support that frequency")

\* Mutant: the Err arm returns a zero code instead of panicking.
ip_serial_clock_frequency_nopanic(c, o) ==
    Ok(try_ip_serial_clock_frequency(c, o).value)

ip_serial_clock_frequency(c, o) ==
    LET r == try_ip_serial_clock_frequency(c, o)
    IN  IF r.tag = "Ok"
        THEN Ok(r.value)
        ELSE Panic("This chip doesn't support that frequency")

(***************************************************************************)
(* nor::SerialClockFrequency (src/serial_flash/nor.rs): a #[repr(u8)] enum *)
(* whose variants are selected by the chip feature; only NoChange has an   *)
(* explicit discriminant, the others continue the count from it.           *)
(***************************************************************************)
NorVariantOrder ==
    <<"NoChange", "MHz30", "MHz50", "MHz60", "MHz75", "MHz80",
      "MHz100", "MHz120", "MHz133", "MHz166">>

\* The #[cfg(...)] attribute on each variant.
NorHasVariant(feature, v) ==
    CASE v = "MHz75"  -> feature \notin {"imxrt1170", "imxrt1180"}
      [] v = "MHz120" -> feature \in {"imxrt1040", "imxrt1060", "imxrt1064",
                                      "imxrt1170", "imxrt1180"}
      [] v = "MHz166" -> feature \in {"imxrt1040", "imxrt1050", "imxrt1060",
                                      "imxrt1064"}
      [] OTHER -> TRUE

\* Implicit discriminant: the number of compiled-in variants that precede.
NorDiscriminant(feature, v) ==
    LET pos == CHOOSE i \in 1 .. Len(NorVariantOrder) : NorVariantOrder[i] = v
    IN  Cardinality({i \in 1 .. (pos - 1) :
                        NorHasVariant(feature, NorVariantOrder[i])})

(***************************************************************************)
(* Instructions (src/flexspi_lut.rs).                                      *)
(***************************************************************************)
INSTRUCTION_SIZE == 2

\* `pads as u8` for the #[repr(u8)] enum Pads.
Pads == {"One", "Two", "Four", "Eight"}
PadsAsU8(p) ==
    CASE p = "One"   -> 0
      [] p = "Two"   -> 1
      [] p = "Four"  -> 2
      [] p = "Eight" -> 3

\* opcodes::sdr, opcodes::ddr (to_ddr adds 0x20), and the two private ones.
SdrOpcodes == 1 .. 13
\* Mutant: the DDR variants are the SDR codes plus 0x40.
to_ddr_0x40(op) == op + 64

to_ddr(op) == op + 32
DdrOpcodes == {to_ddr(op) : op \in SdrOpcodes}
OPCODE_STOP == 0
OPCODE_JUMP_ON_CS == 31
OPCODE_CMD == 1
OPCODE_RADDR == 2
OPCODE_WRITE == 8
OPCODE_READ == 9
OPCODE_DUMMY == 12
DefinedOpcodes == SdrOpcodes \cup DdrOpcodes \cup {OPCODE_STOP, OPCODE_JUMP_ON_CS}

\* Mutant: the opcode is shifted by one bit only.
Instr_new_shl1(op, p, arg) == <<arg, BitOr(Shl8(op, 1), PadsAsU8(p))>>

\* Mutant: the pads are masked to one bit.
Instr_new_pad1(op, p, arg) == <<arg, BitOr(Shl8(op, 2), PadsAsU8(p) % 2)>>

\* Instr::new: Instr([operand, (opcode.0 << 2) | (pads as u8)])
Instr_new(op, p, arg) == <<arg, BitOr(Shl8(op, 2), PadsAsU8(p))>>

Instr_stop == Instr_new(OPCODE_STOP, "One", 0)

Instr_jump_on_cs == Instr_new(OPCODE_JUMP_ON_CS, "One", 0)

STOP == Instr_stop

JUMP_ON_CS == Instr_jump_on_cs

(***************************************************************************)
(* Sequences and the SequenceBuilder (src/flexspi_lut.rs).                 *)
(***************************************************************************)
INSTRUCTIONS_PER_SEQUENCE == 8

SEQUENCE_SIZE == INSTRUCTIONS_PER_SEQUENCE * INSTRUCTION_SIZE

\* Mutant: unspecified instructions are JUMP_ON_CS instead of STOP.
Sequence_stopped_jump == [i \in 1 .. INSTRUCTIONS_PER_SEQUENCE |-> JUMP_ON_CS]

\* Sequence::stopped: [STOP; INSTRUCTIONS_PER_SEQUENCE]
Sequence_stopped == [i \in 1 .. INSTRUCTIONS_PER_SEQUENCE |-> STOP]

SequenceBuilder_new ==
    [sequence |-> Sequence_stopped, offset |-> 0, panicked |-> FALSE]

\* Mutant: the write position wraps around instead of running off the array.
SequenceBuilder_instr_wrap(b, i) ==
    [sequence |-> [b.sequence EXCEPT
                      ![(b.offset % INSTRUCTIONS_PER_SEQUENCE) + 1] = i],
     offset   |-> b.offset + 1,
     panicked |-> FALSE]

\* SequenceBuilder::instr.  `seq[self.offset] = instr` is a bounds-checked
\* array store: with offset = 8 it panics (a compile-time error in a const
\* context) and no builder value is returned.
SequenceBuilder_instr(b, i) ==
    IF b.offset >= INSTRUCTIONS_PER_SEQUENCE
    THEN [b EXCEPT !.panicked = TRUE]
    ELSE [sequence |-> [b.sequence EXCEPT ![b.offset + 1] = i],
          offset   |-> b.offset + 1,
          panicked |-> FALSE]

\* SequenceBuilder::build
SequenceBuilder_build(b) == b.sequence


\* Mutant: each instruction's bytes in the opposite order.
RECURSIVE seq_to_bytes_swapped(_)
seq_to_bytes_swapped(seq) ==
    IF seq = <<>> THEN <<>>
    ELSE <<Head(seq)[2], Head(seq)[1]>> \o seq_to_bytes_swapped(Tail(seq))

\* seq_to_bytes: the instructions' two bytes each, in slot order.
RECURSIVE seq_to_bytes(_)
seq_to_bytes(seq) ==
    IF seq = <<>> THEN <<>>
    ELSE Head(seq) \o seq_to_bytes(Tail(seq))

(***************************************************************************)
(* flexspi::LookupTable (src/flexspi/lookup.rs).                           *)
(***************************************************************************)
Command == {"Read", "ReadStatus", "WriteEnable", "EraseSector",
            "PageProgram", "ChipErase", "Dummy"}

\* Mutant: the commands numbered contiguously, without the gaps.
CommandAsUsize_contiguous(cmd) ==
    CASE cmd = "Read"        -> 0
      [] cmd = "ReadStatus"  -> 1
      [] cmd = "WriteEnable" -> 2
      [] cmd = "EraseSector" -> 3
      [] cmd = "PageProgram" -> 4
      [] cmd = "ChipErase"   -> 5
      [] cmd = "Dummy"       -> 6

\* `cmd as usize` for the #[repr(usize)] enum Command / SequenceCommand.
CommandAsUsize(cmd) ==
    CASE cmd = "Read"        -> 0
      [] cmd = "ReadStatus"  -> 1
      [] cmd = "WriteEnable" -> 3
      [] cmd = "EraseSector" -> 5
      [] cmd = "PageProgram" -> 9
      [] cmd = "ChipErase"   -> 11
      [] cmd = "Dummy"       -> 15

LOOKUP_TABLE_SIZE_BYTES == 256

NUMBER_OF_SEQUENCES == LOOKUP_TABLE_SIZE_BYTES \div SEQUENCE_SIZE

LookupTable_new ==
    [slots    |-> [i \in 1 .. NUMBER_OF_SEQUENCES |-> Sequence_stopped],
     panicked |-> FALSE]

\* Mutant: the bounds test lets index 16 through, one slot past the array.
LookupTable_custom_command_le(t, index, sequence) ==
    IF index > NUMBER_OF_SEQUENCES
    THEN [t EXCEPT !.panicked = TRUE]
    ELSE IF index = NUMBER_OF_SEQUENCES
         THEN [t EXCEPT !.slots = Append(t.slots, sequence)]
         ELSE [t EXCEPT !.slots[index + 1] = sequence]

\* Mutant: an index that is a standard Command slot is refused.
LookupTable_custom_command_reserved(t, index, sequence) ==
    IF index >= NUMBER_OF_SEQUENCES \/ index \in {0, 1, 3, 5, 9, 11, 15}
    THEN [t EXCEPT !.panicked = TRUE]
    ELSE [t EXCEPT !.slots[index + 1] = sequence]

\* Mutant: the sequence lands one slot too high (1-based indexing slip).
LookupTable_custom_command_off1(t, index, sequence) ==
    IF index + 1 >= NUMBER_OF_SEQUENCES
    THEN [t EXCEPT !.panicked = TRUE]
    ELSE [t EXCEPT !.slots[index + 2] = sequence]

\* LookupTable::custom_command.  `self.0[index] = sequence` is a
\* bounds-checked array store.
LookupTable_custom_command(t, index, sequence) ==
    IF index >= NUMBER_OF_SEQUENCES
    THEN [t EXCEPT !.panicked = TRUE]
    ELSE [t EXCEPT !.slots[index + 1] = sequence]

\* LookupTable::command
LookupTable_command(t, cmd, sequence) ==
    LookupTable_custom_command(t, CommandAsUsize(cmd), sequence)

\* The memory of the #[repr(transparent)] [Sequence; 16]: the sequences'
\* bytes, in slot order.
RECURSIVE LookupTableBytes(_)
LookupTableBytes(slots) ==
    IF slots = <<>> THEN <<>>
    ELSE seq_to_bytes(Head(slots)) \o LookupTableBytes(Tail(slots))

(***************************************************************************)
(* serial_flash::LookupTable (src/serial_flash/lookup.rs): a byte array.   *)
(***************************************************************************)
\* LookupTable::default / LookupTable::new
ByteTable_new == [i \in 1 .. LOOKUP_TABLE_SIZE_BYTES |-> 0]

INDEX_TO_BYTE_OFFSET == 8 * 2

\* LookupTable::command(cmd) followed by LutSeq::set(seq): seq_to_bytes into
\* the slice self.0[start..end].
ByteTable_command_set(t, cmd, seq) ==
    LET start == CommandAsUsize(cmd) * INDEX_TO_BYTE_OFFSET
        end   == start + INDEX_TO_BYTE_OFFSET
        bytes == seq_to_bytes(seq)
    IN  [i \in 1 .. LOOKUP_TABLE_SIZE_BYTES |->
            IF start < i /\ i <= end THEN bytes[i - start] ELSE t[i]]

(***************************************************************************)
(* FlexSPI configuration block fields (src/flexspi/fields.rs,              *)
(* src/serial_flash/fields.rs).                                            *)
(***************************************************************************)
\* `(a as u32) << n` for a u8 `a` and n <= 24: no bit leaves the 32-bit
\* word, so the shift is the multiplication.
Shl32(a, n) == a * Pow2(n)

\* n.to_le_bytes() for an integer of k bytes; also the memory of a k-byte
\* integer field on the little-endian target.
RECURSIVE to_le_bytes(_, _)
to_le_bytes(n, k) ==
    IF k = 0 THEN <<>> ELSE <<n % 256>> \o to_le_bytes(n \div 256, k - 1)

\* [0u8; k]
ZeroBytes(k) == [i \in 1 .. k |-> 0]

ReadSampleClockSource ==
    {"InternalLoopback", "LoopbackFromDQSPad", "FlashProvidedDQS"}

ReadSampleClockSourceAsU8(v) ==
    CASE v = "InternalLoopback"   -> 0
      [] v = "LoopbackFromDQSPad" -> 1
      [] v = "FlashProvidedDQS"   -> 3

ColumnAddressWidth == {"OtherDevices", "Hyperflash"}

ColumnAddressWidthAsU8(v) ==
    CASE v = "OtherDevices" -> 0
      [] v = "Hyperflash"   -> 3

FlashPadType == {"Single", "Dual", "Quad", "Octal"}

FlashPadTypeAsU8(v) ==
    CASE v = "Single" -> 1
      [] v = "Dual"   -> 2
      [] v = "Quad"   -> 4
      [] v = "Octal"  -> 8

\* The FlexSPI serialClkFreq enum, without the cfg-gated MHz166.
SerialClockFrequency ==
    {"MHz30", "MHz50", "MHz60", "MHz75", "MHz80", "MHz100", "MHz120", "MHz133"}

SerialClockFrequencyAsU8(v) ==
    CASE v = "MHz30"  -> 1
      [] v = "MHz50"  -> 2
      [] v = "MHz60"  -> 3
      [] v = "MHz75"  -> 4
      [] v = "MHz80"  -> 5
      [] v = "MHz100" -> 6
      [] v = "MHz120" -> 7
      [] v = "MHz133" -> 8

SerialFlashRegion == {"A1", "A2", "B1", "B2"}

SerialFlashRegionAsUsize(r) ==
    CASE r = "A1" -> 0
      [] r = "A2" -> 1
      [] r = "B1" -> 2
      [] r = "B2" -> 3

\* flexspi::DeviceModeSequence::new: the memory of the packed struct
\* { sequence_count: u8, sequence_index: u8, _reserved: u16 }.
DeviceModeSequence_new(sequence_count, sequence_index) ==
    <<sequence_count, sequence_index>> \o to_le_bytes(0, 2)


\* Mutant: the count is shifted into the second byte instead of the index.
DeviceModeSequence_new_word_hi(number_of_luts, starting_lut_index) ==
    to_le_bytes(BitOr(Shl32(number_of_luts, 8), starting_lut_index), 4)

\* serial_flash::DeviceModeSequence::new:
\* ((starting_lut_index << 8) | number_of_luts).to_le_bytes()
DeviceModeSequence_new_word(number_of_luts, starting_lut_index) ==
    to_le_bytes(BitOr(Shl32(starting_lut_index, 8), number_of_luts), 4)

WaitTimeConfigurationCommands_disable == 0

\* flexspi::WaitTimeConfigurationCommands::new
WaitTimeConfigurationCommands_new(wait_time_us) == wait_time_us \div 100

\* Version::new

\* Mutant: minor and bugfix change places.
Version_new_swapped(major, minor, bugfix) ==
    BitOr(BitOr(BitOr(Shl32(86, 24), Shl32(major, 16)), Shl32(bugfix, 8)),
          minor)

Version_new(major, minor, bugfix) ==
    BitOr(BitOr(BitOr(Shl32(86, 24), Shl32(major, 16)), Shl32(minor, 8)),
          bugfix)

\* ASCII 'FCFB', 0x4246_4346
TAG == 1111900998

VERSION_DEFAULT == Version_new(1, 0, 0)

\* serial_flash::VERSION, 0x5601_0000
VERSION == 1442906112

RECOMMENDED_CS_HOLD_TIME == 3

RECOMMENDED_CS_SETUP_TIME == 3

(***************************************************************************)
(* The #[repr(C, packed)] configuration block: flexspi::ConfigurationBlock *)
(* (src/flexspi.rs) and FlexSPIConfigurationBlock (src/serial_flash.rs).   *)
(* A block value is a record with one component per struct field; integer  *)
(* fields hold their value, array fields their bytes.                      *)
(***************************************************************************)
Api == {"flexspi", "serial_flash"}

\* Mutant: the wait time declared before the reserved byte at 0x011.
ConfigurationBlockFields_swapped ==
    <<<<"tag", 4>>, <<"version", 4>>, <<"reserved0", 4>>,
      <<"read_sample_clk_src", 1>>, <<"cs_hold_time", 1>>,
      <<"cs_setup_time", 1>>, <<"column_address_width", 1>>,
      <<"device_mode_configuration", 1>>,
      <<"wait_time_cfg_commands", 2>>, <<"reserved1", 1>>,
      <<"device_mode_sequence", 4>>, <<"device_mode_arg", 4>>,
      <<"config_cmd_enable", 1>>, <<"reserved2", 3>>,
      <<"config_cmd_seqs", 12>>, <<"reserved3", 4>>,
      <<"cfg_cmd_args", 12>>, <<"reserved4", 4>>,
      <<"controller_misc_options", 4>>, <<"device_type", 1>>,
      <<"serial_flash_pad_type", 1>>, <<"serial_clk_freq", 1>>,
      <<"lut_custom_seq_enable", 1>>, <<"reserved5", 8>>,
      <<"serial_flash_sizes", 16>>,
      <<"cs_pad_setting_override", 4>>, <<"sclk_pad_setting_override", 4>>,
      <<"data_pad_setting_override", 4>>, <<"dqs_pad_setting_override", 4>>,
      <<"timeout_ms", 4>>, <<"command_interval", 4>>,
      <<"data_valid_time", 4>>, <<"busy_offset", 2>>,
      <<"busy_bit_polarity", 2>>, <<"lookup_table", 256>>,
      <<"lut_custom_seq", 48>>, <<"reserved6", 16>>>>

\* Mutant: the struct without the three reserved bytes at 0x01D.
ConfigurationBlockFields_nopad ==
    <<<<"tag", 4>>, <<"version", 4>>, <<"reserved0", 4>>,
      <<"read_sample_clk_src", 1>>, <<"cs_hold_time", 1>>,
      <<"cs_setup_time", 1>>, <<"column_address_width", 1>>,
      <<"device_mode_configuration", 1>>, <<"reserved1", 1>>,
      <<"wait_time_cfg_commands", 2>>,
      <<"device_mode_sequence", 4>>, <<"device_mode_arg", 4>>,
      <<"config_cmd_enable", 1>>,
      <<"config_cmd_seqs", 12>>, <<"reserved3", 4>>,
      <<"cfg_cmd_args", 12>>, <<"reserved4", 4>>,
      <<"controller_misc_options", 4>>, <<"device_type", 1>>,
      <<"serial_flash_pad_type", 1>>, <<"serial_clk_freq", 1>>,
      <<"lut_custom_seq_enable", 1>>, <<"reserved5", 8>>,
      <<"serial_flash_sizes", 16>>,
      <<"cs_pad_setting_override", 4>>, <<"sclk_pad_setting_override", 4>>,
      <<"data_pad_setting_override", 4>>, <<"dqs_pad_setting_override", 4>>,
      <<"timeout_ms", 4>>, <<"command_interval", 4>>,
      <<"data_valid_time", 4>>, <<"busy_offset", 2>>,
      <<"busy_bit_polarity", 2>>, <<"lookup_table", 256>>,
      <<"lut_custom_seq", 48>>, <<"reserved6", 16>>>>

\* The struct's fields in declaration order with size_of each field's type.
\* (The fields named _reservedN in the source are reservedN here.)
ConfigurationBlockFields ==
    <<<<"tag", 4>>, <<"version", 4>>, <<"reserved0", 4>>,
      <<"read_sample_clk_src", 1>>, <<"cs_hold_time", 1>>,
      <<"cs_setup_time", 1>>, <<"column_address_width", 1>>,
      <<"device_mode_configuration", 1>>, <<"reserved1", 1>>,
      <<"wait_time_cfg_commands", 2>>,
      <<"device_mode_sequence", 4>>, <<"device_mode_arg", 4>>,
      <<"config_cmd_enable", 1>>, <<"reserved2", 3>>,
      <<"config_cmd_seqs", 12>>, <<"reserved3", 4>>,
      <<"cfg_cmd_args", 12>>, <<"reserved4", 4>>,
      <<"controller_misc_options", 4>>, <<"device_type", 1>>,
      <<"serial_flash_pad_type", 1>>, <<"serial_clk_freq", 1>>,
      <<"lut_custom_seq_enable", 1>>, <<"reserved5", 8>>,
      <<"serial_flash_sizes", 16>>,
      <<"cs_pad_setting_override", 4>>, <<"sclk_pad_setting_override", 4>>,
      <<"data_pad_setting_override", 4>>, <<"dqs_pad_setting_override", 4>>,
      <<"timeout_ms", 4>>, <<"command_interval", 4>>,
      <<"data_valid_time", 4>>, <<"busy_offset", 2>>,
      <<"busy_bit_polarity", 2>>, <<"lookup_table", 256>>,
      <<"lut_custom_seq", 48>>, <<"reserved6", 16>>>>

\* Index of a field in the declaration order.
FieldIndex(name) ==
    CHOOSE i \in 1 .. Len(ConfigurationBlockFields) :
        ConfigurationBlockFields[i][1] = name

FieldSize(name) == ConfigurationBlockFields[FieldIndex(name)][2]

\* Sum of the sizes of the first n fields.
RECURSIVE SizeOfFirst(_)
SizeOfFirst(n) ==
    IF n = 0 THEN 0 ELSE SizeOfFirst(n - 1) + ConfigurationBlockFields[n][2]

\* With repr(C, packed) there is no padding: a field's offset is the sum of
\* the sizes of the fields declared before it.
OffsetOf(name) == SizeOfFirst(FieldIndex(name) - 1)

\* core::mem::size_of::<ConfigurationBlock>()
SizeOfConfigurationBlock == SizeOfFirst(Len(ConfigurationBlockFields))

\* The memory of [u32; 4].
RECURSIVE WordsBytes(_)
WordsBytes(ws) ==
    IF ws = <<>> THEN <<>>
    ELSE to_le_bytes(Head(ws), 4) \o WordsBytes(Tail(ws))

\* The memory of one field of a block value.  The lookup table is an array
\* of Sequences in flexspi and an array of bytes in serial_flash.
FieldMemory(a, b, name) ==
    LET IntegerFields ==
        {"tag", "version", "read_sample_clk_src", "cs_hold_time", "cs_setup_time",
         "column_address_width", "device_mode_configuration",
         "wait_time_cfg_commands", "device_mode_arg", "config_cmd_enable",
         "controller_misc_options", "device_type", "serial_flash_pad_type",
         "serial_clk_freq", "lut_custom_seq_enable",
         "cs_pad_setting_override", "sclk_pad_setting_override",
         "data_pad_setting_override", "dqs_pad_setting_override",
         "timeout_ms", "command_interval", "data_valid_time", "busy_offset",
         "busy_bit_polarity"}
    IN
    IF name \in IntegerFields THEN to_le_bytes(b[name], FieldSize(name))
    ELSE IF name = "serial_flash_sizes" THEN WordsBytes(b[name])
    ELSE IF name = "lookup_table"
         THEN (IF a = "flexspi" THEN LookupTableBytes(b[name].slots)
               ELSE b[name])
    ELSE b[name]

\* The memory of the first n fields, in declaration order.
RECURSIVE MemoryOfFirst(_, _, _)
MemoryOfFirst(a, b, n) ==
    IF n = 0 THEN <<>>
    ELSE MemoryOfFirst(a, b, n - 1)
             \o FieldMemory(a, b, ConfigurationBlockFields[n][1])

\* The bytes of a block value as the boot ROM reads them.
BlockBytes(a, b) == MemoryOfFirst(a, b, Len(ConfigurationBlockFields))

\* Mutant: a constructor that leaves serialClkFreq at 0.
ConfigurationBlock_new_clk0(lookup_table) ==
    [tag                       |-> TAG,
     version                   |-> VERSION_DEFAULT,
     read_sample_clk_src       |-> ReadSampleClockSourceAsU8("InternalLoopback"),
     cs_hold_time              |-> RECOMMENDED_CS_HOLD_TIME,
     cs_setup_time             |-> RECOMMENDED_CS_SETUP_TIME,
     column_address_width      |-> ColumnAddressWidthAsU8("OtherDevices"),
     device_mode_configuration |-> 0,
     wait_time_cfg_commands    |-> WaitTimeConfigurationCommands_disable,
     device_mode_sequence      |-> DeviceModeSequence_new(0, 0),
     device_mode_arg           |-> 0,
     config_cmd_enable         |-> 0,
     config_cmd_seqs           |-> ZeroBytes(12),
     cfg_cmd_args              |-> ZeroBytes(12),
     controller_misc_options   |-> 0,
     device_type               |-> 0,
     serial_flash_pad_type     |-> FlashPadTypeAsU8("Single"),
     serial_clk_freq           |-> 0,
     lut_custom_seq_enable     |-> 0,
     serial_flash_sizes        |-> <<0, 0, 0, 0>>,
     cs_pad_setting_override   |-> 0,
     sclk_pad_setting_override |-> 0,
     data_pad_setting_override |-> 0,
     dqs_pad_setting_override  |-> 0,
     timeout_ms                |-> 0,
     command_interval          |-> 0,
     data_valid_time           |-> 0,
     busy_offset               |-> 0,
     busy_bit_polarity         |-> 0,
     lookup_table              |-> lookup_table,
     lut_custom_seq            |-> ZeroBytes(48),
     reserved0                 |-> ZeroBytes(4),
     reserved1                 |-> ZeroBytes(1),
     reserved2                 |-> ZeroBytes(3),
     reserved3                 |-> ZeroBytes(4),
     reserved4                 |-> ZeroBytes(4),
     reserved5                 |-> ZeroBytes(8),
     reserved6                 |-> ZeroBytes(16)]

\* flexspi::ConfigurationBlock::new
ConfigurationBlock_new(lookup_table) ==
    [tag                       |-> TAG,
     version                   |-> VERSION_DEFAULT,
     read_sample_clk_src       |-> ReadSampleClockSourceAsU8("InternalLoopback"),
     cs_hold_time              |-> RECOMMENDED_CS_HOLD_TIME,
     cs_setup_time             |-> RECOMMENDED_CS_SETUP_TIME,
     column_address_width      |-> ColumnAddressWidthAsU8("OtherDevices"),
     device_mode_configuration |-> 0,
     wait_time_cfg_commands    |-> WaitTimeConfigurationCommands_disable,
     device_mode_sequence      |-> DeviceModeSequence_new(0, 0),
     device_mode_arg           |-> 0,
     config_cmd_enable         |-> 0,
     config_cmd_seqs           |-> ZeroBytes(12),
     cfg_cmd_args              |-> ZeroBytes(12),
     controller_misc_options   |-> 0,
     device_type               |-> 0,
     serial_flash_pad_type     |-> FlashPadTypeAsU8("Single"),
     serial_clk_freq           |-> SerialClockFrequencyAsU8("MHz30"),
     lut_custom_seq_enable     |-> 0,
     serial_flash_sizes        |-> <<0, 0, 0, 0>>,
     cs_pad_setting_override   |-> 0,
     sclk_pad_setting_override |-> 0,
     data_pad_setting_override |-> 0,
     dqs_pad_setting_override  |-> 0,
     timeout_ms                |-> 0,
     command_interval          |-> 0,
     data_valid_time           |-> 0,
     busy_offset               |-> 0,
     busy_bit_polarity         |-> 0,
     lookup_table              |-> lookup_table,
     lut_custom_seq            |-> ZeroBytes(48),
     reserved0                 |-> ZeroBytes(4),
     reserved1                 |-> ZeroBytes(1),
     reserved2                 |-> ZeroBytes(3),
     reserved3                 |-> ZeroBytes(4),
     reserved4                 |-> ZeroBytes(4),
     reserved5                 |-> ZeroBytes(8),
     reserved6                 |-> ZeroBytes(16)]

\* serial_flash::FlexSPIConfigurationBlock::new
FlexSPIConfigurationBlock_new(lookup_table) ==
    [tag                       |-> TAG,
     version                   |-> VERSION,
     read_sample_clk_src       |-> ReadSampleClockSourceAsU8("InternalLoopback"),
     cs_hold_time              |-> RECOMMENDED_CS_HOLD_TIME,
     cs_setup_time             |-> RECOMMENDED_CS_SETUP_TIME,
     column_address_width      |-> ColumnAddressWidthAsU8("OtherDevices"),
     device_mode_configuration |-> 0,
     wait_time_cfg_commands    |-> 0,
     device_mode_sequence      |-> ZeroBytes(4),
     device_mode_arg           |-> 0,
     config_cmd_enable         |-> 0,
     config_cmd_seqs           |-> ZeroBytes(12),
     cfg_cmd_args              |-> ZeroBytes(12),
     controller_misc_options   |-> 0,
     device_type               |-> 0,
     serial_flash_pad_type     |-> 1,
     serial_clk_freq           |-> 0,
     lut_custom_seq_enable     |-> 0,
     serial_flash_sizes        |-> <<0, 0, 0, 0>>,
     cs_pad_setting_override   |-> 0,
     sclk_pad_setting_override |-> 0,
     data_pad_setting_override |-> 0,
     dqs_pad_setting_override  |-> 0,
     timeout_ms                |-> 0,
     command_interval          |-> 0,
     data_valid_time           |-> 0,
     busy_offset               |-> 0,
     busy_bit_polarity         |-> 0,
     lookup_table              |-> lookup_table,
     lut_custom_seq            |-> ZeroBytes(48),
     reserved0                 |-> ZeroBytes(4),
     reserved1                 |-> ZeroBytes(1),
     reserved2                 |-> ZeroBytes(3),
     reserved3                 |-> ZeroBytes(4),
     reserved4                 |-> ZeroBytes(4),
     reserved5                 |-> ZeroBytes(8),
     reserved6                 |-> ZeroBytes(16)]

\* The constructor of the implementation `a`.
BlockNew(a, lookup_table) ==
    IF a = "flexspi" THEN ConfigurationBlock_new(lookup_table)
    ELSE FlexSPIConfigurationBlock_new(lookup_table)

\* ConfigurationBlock::version (flexspi only)
ConfigurationBlock_version(b, version) == [b EXCEPT !.version = version]

\* read_sample_clk_src: the enum's byte, stored as the enum (flexspi) or
\* `as u8` (serial_flash).
ConfigurationBlock_read_sample_clk_src(b, v) ==
    [b EXCEPT !.read_sample_clk_src = ReadSampleClockSourceAsU8(v)]

ConfigurationBlock_cs_hold_time(b, v) == [b EXCEPT !.cs_hold_time = v]

ConfigurationBlock_cs_setup_time(b, v) == [b EXCEPT !.cs_setup_time = v]

ConfigurationBlock_column_address_width(b, v) ==
    [b EXCEPT !.column_address_width = ColumnAddressWidthAsU8(v)]

\* device_mode_configuration: mode is [enabled, device_mode_seq,
\* device_mode_arg]; Disabled only clears the flag.

\* Mutant: Disabled also zeroes the descriptor and the argument.
ConfigurationBlock_device_mode_configuration_clear(b, mode) ==
    IF mode.enabled
    THEN [b EXCEPT !.device_mode_configuration = 1,
                   !.device_mode_sequence = mode.device_mode_seq,
                   !.device_mode_arg = mode.device_mode_arg]
    ELSE [b EXCEPT !.device_mode_configuration = 0,
                   !.device_mode_sequence = ZeroBytes(4),
                   !.device_mode_arg = 0]

ConfigurationBlock_device_mode_configuration(b, mode) ==
    IF mode.enabled
    THEN [b EXCEPT !.device_mode_configuration = 1,
                   !.device_mode_sequence = mode.device_mode_seq,
                   !.device_mode_arg = mode.device_mode_arg]
    ELSE [b EXCEPT !.device_mode_configuration = 0]

\* Mutant: the wait time stored in one byte, its high byte spilling into the
\* reserved byte before it.
ConfigurationBlock_wait_time_cfg_commands_spill(b, v) ==
    [b EXCEPT !.wait_time_cfg_commands = v % 256,
              !.reserved1 = <<v \div 256>>]

ConfigurationBlock_wait_time_cfg_commands(b, v) ==
    [b EXCEPT !.wait_time_cfg_commands = v]

ConfigurationBlock_serial_flash_pad_type(b, v) ==
    [b EXCEPT !.serial_flash_pad_type = FlashPadTypeAsU8(v)]

ConfigurationBlock_serial_clk_freq(b, v) ==
    [b EXCEPT !.serial_clk_freq = SerialClockFrequencyAsU8(v)]

\* Mutant: every region's size lands in region A1.
ConfigurationBlock_flash_size_a1(b, flash_region, flash_size) ==
    [b EXCEPT !.serial_flash_sizes[1] = flash_size]

\* flash_size: self.serial_flash_sizes[flash_region as usize] = flash_size
ConfigurationBlock_flash_size(b, flash_region, flash_size) ==
    [b EXCEPT !.serial_flash_sizes[SerialFlashRegionAsUsize(flash_region) + 1]
                  = flash_size]

\* ConfigurationBlock::controller_misc_options (flexspi only)
ConfigurationBlock_controller_misc_options(b, options) ==
    [b EXCEPT !.controller_misc_options = options]

\* The setter named by a call record [name, region, arg], applied to b.
ApplySetter(b, op) ==
    CASE op.name = "version" -> ConfigurationBlock_version(b, op.arg)
      [] op.name = "read_sample_clk_src" ->
            ConfigurationBlock_read_sample_clk_src(b, op.arg)
      [] op.name = "cs_hold_time" -> ConfigurationBlock_cs_hold_time(b, op.arg)
      [] op.name = "cs_setup_time" ->
            ConfigurationBlock_cs_setup_time(b, op.arg)
      [] op.name = "column_address_width" ->
            ConfigurationBlock_column_address_width(b, op.arg)
      [] op.name = "device_mode_configuration" ->
            ConfigurationBlock_device_mode_configuration(b, op.arg)
      [] op.name = "wait_time_cfg_commands" ->
            ConfigurationBlock_wait_time_cfg_commands(b, op.arg)
      [] op.name = "serial_flash_pad_type" ->
            ConfigurationBlock_serial_flash_pad_type(b, op.arg)
      [] op.name = "serial_clk_freq" ->
            ConfigurationBlock_serial_clk_freq(b, op.arg)
      [] op.name = "flash_size" ->
            ConfigurationBlock_flash_size(b, op.region, op.arg)
      [] op.name = "controller_misc_options" ->
            ConfigurationBlock_controller_misc_options(b, op.arg)

(***************************************************************************)
(* The serial NOR configuration block (src/serial_flash/nor.rs): the       *)
(* FlexSPI block followed by the NOR fields and the 55-byte extras.        *)
(***************************************************************************)
\* The chip features (src/build.rs) and those named by the #[cfg]
\* attributes of src/serial_flash/nor.rs; exactly one is selected per build.
Features == {"imxrt1010", "imxrt1020", "imxrt1040", "imxrt1050",
             "imxrt1060", "imxrt1064", "imxrt1170", "imxrt1180"}


\* Mutant: the imxrt1060 feature also selects the Imxrt11xxExtras tail.
HasImxrt11xxExtras_1060(feature) ==
    feature \in {"imxrt1060", "imxrt1170", "imxrt1180"}

\* #[cfg(any(feature = "imxrt1170", feature = "imxrt1180"))]
HasImxrt11xxExtras(feature) == feature \in {"imxrt1170", "imxrt1180"}

\* size_of::<Imxrt11xxExtras>()
SizeOfExtras == 1 + 1 + 5 + 4 + 4 + 40

\* extras()
extras(feature) ==
    IF HasImxrt11xxExtras(feature)
    THEN [is_uniform_block_size |-> 1,
          is_data_order_swapped |-> 0,
          reserved0             |-> ZeroBytes(5),
          block_size            |-> 0,
          flash_state_ctx       |-> 0,
          reserved1             |-> ZeroBytes(40)]
    ELSE ZeroBytes(SizeOfExtras)

\* The memory of Extras: the packed Imxrt11xxExtras or the byte array.
ExtrasMemory(feature, e) ==
    IF HasImxrt11xxExtras(feature)
    THEN <<e.is_uniform_block_size, e.is_data_order_swapped>>
             \o e.reserved0
             \o to_le_bytes(e.block_size, 4)
             \o to_le_bytes(e.flash_state_ctx, 4)
             \o e.reserved1
    ELSE e

\* Mutant: the device type of the FlexSPI block is kept.
nor_ConfigurationBlock_new_keep(feature, mem_cfg) ==
    [mem_cfg                |-> mem_cfg,
     page_size              |-> 0,
     sector_size            |-> 0,
     ip_cmd_serial_clk_freq |-> "NoChange",
     extras                 |-> extras(feature)]

\* nor::ConfigurationBlock::new
nor_ConfigurationBlock_new(feature, mem_cfg) ==
    [mem_cfg                |-> [mem_cfg EXCEPT !.device_type = 1],
     page_size              |-> 0,
     sector_size            |-> 0,
     ip_cmd_serial_clk_freq |-> "NoChange",
     extras                 |-> extras(feature)]

nor_ConfigurationBlock_page_size(n, page_size) ==
    [n EXCEPT !.page_size = page_size]

\* Mutant: the sector size also lands in the page size.
nor_ConfigurationBlock_sector_size_both(n, sector_size) ==
    [n EXCEPT !.sector_size = sector_size, !.page_size = sector_size]

nor_ConfigurationBlock_sector_size(n, sector_size) ==
    [n EXCEPT !.sector_size = sector_size]

nor_ConfigurationBlock_ip_cmd_serial_clk_freq(n, frequency) ==
    [n EXCEPT !.ip_cmd_serial_clk_freq = frequency]


\* Mutant: block_size leaves isUniformBlockSize as it is.
nor_ConfigurationBlock_block_size_uniform(n, block_size) ==
    [n EXCEPT !.extras.block_size = block_size]

\* nor::ConfigurationBlock::block_size (1170 / 1180 only)
nor_ConfigurationBlock_block_size(n, block_size) ==
    [n EXCEPT !.extras.is_uniform_block_size = 0,
              !.extras.block_size = block_size]

\* The setter named by a call record [name, arg], applied to n.
ApplyNorSetter(n, op) ==
    CASE op.name = "page_size" -> nor_ConfigurationBlock_page_size(n, op.arg)
      [] op.name = "sector_size" ->
            nor_ConfigurationBlock_sector_size(n, op.arg)
      [] op.name = "ip_cmd_serial_clk_freq" ->
            nor_ConfigurationBlock_ip_cmd_serial_clk_freq(n, op.arg)
      [] op.name = "block_size" -> nor_ConfigurationBlock_block_size(n, op.arg)

\* The memory of the packed nor::ConfigurationBlock; the one-byte
\* ip_cmd_serial_clk_freq is the #[repr(u8)] enum's discriminant.
NorBlockBytes(feature, n) ==
    BlockBytes("flexspi", n.mem_cfg)
        \o to_le_bytes(n.page_size, 4)
        \o to_le_bytes(n.sector_size, 4)
        \o <<NorDiscriminant(feature, n.ip_cmd_serial_clk_freq)>>
        \o ExtrasMemory(feature, n.extras)

(***************************************************************************)
(* Unit "clock": the four clock-policy calls on one (chip, option) pair.   *)
(***************************************************************************)
(***************************************************************************)
(* serial_flash::FCBBuilder (src/serial_flash/builder.rs) and the wait     *)
(* time constructors (src/serial_flash/fields.rs, src/flexspi/fields.rs).  *)
(***************************************************************************)
\* Mutant: a wait time of exactly 100 us is refused too.
WaitTimeConfigurationCommands_from_duration_le(wait_time) ==
    LET us     == wait_time.secs * 1000000 + wait_time.nanos \div 1000
        factor == us \div 100
    IN  IF us <= 100 THEN [some |-> FALSE, v |-> 0]
        ELSE IF factor > 65535 THEN [some |-> FALSE, v |-> 0]
        ELSE [some |-> TRUE, v |-> factor]

\* WaitTimeConfigurationCommands::from_duration.  A Duration is
\* [secs, nanos]; as_micros() is secs * 10^6 + nanos / 1000 and
\* u16::try_from(us / 100).ok()? returns None above u16::MAX.  The Option
\* is [some, v].
WaitTimeConfigurationCommands_from_duration(wait_time) ==
    LET us     == wait_time.secs * 1000000 + wait_time.nanos \div 1000
        factor == us \div 100
    IN  IF us < 100 THEN [some |-> FALSE, v |-> 0]
        ELSE IF factor > 65535 THEN [some |-> FALSE, v |-> 0]
        ELSE [some |-> TRUE, v |-> factor]

\* FCBBuilder::new(device_type, lookup_table); device_type is
\* DeviceType::SerialNOR(norcb) with norcb = [page_size, sector_size,
\* ip_cmd_serial_clk_freq].
FCBBuilder_new(device_type, lookup_table) ==
    [read_sample_clk_src       |-> "InternalLoopback",
     cs_hold_time              |-> RECOMMENDED_CS_HOLD_TIME,
     cs_setup_time             |-> RECOMMENDED_CS_SETUP_TIME,
     column_address_width      |-> "OtherDevices",
     device_mode_configuration |->
         [enabled |-> FALSE, device_mode_seq |-> ZeroBytes(4),
          device_mode_arg |-> 0],
     wait_time_cfg_commands    |-> WaitTimeConfigurationCommands_disable,
     device_type               |-> device_type,
     serial_flash_pad_type     |-> "Single",
     serial_clk_freq           |-> "MHz30",
     flash_size                |-> <<0, 0, 0, 0>>,
     lookup_table              |-> lookup_table]

\* FCBBuilder::build: the field_comment(offset, bytes, comment) calls it
\* makes on the new FCB, in order.  serialze_lookup comes first and writes
\* the two raw bytes of every instruction of every sequence of the table,
\* advancing the offset by raw.len().
FCBBuilder_build(b) ==
    LET W(offset, bytes, name) ==
            [offset |-> offset, bytes |-> bytes, name |-> name]
        LOOKUP_TABLE_OFFSET == 128
        serialze_lookup ==
            [k \in 1 .. NUMBER_OF_SEQUENCES * INSTRUCTIONS_PER_SEQUENCE |->
                LET seq_idx == (k - 1) \div INSTRUCTIONS_PER_SEQUENCE
                    i       == (k - 1) % INSTRUCTIONS_PER_SEQUENCE
                IN  W(LOOKUP_TABLE_OFFSET + (k - 1) * INSTRUCTION_SIZE,
                      b.lookup_table.slots[seq_idx + 1][i + 1], "LUT")]
        mode  == b.device_mode_configuration
        norcb == b.device_type
    IN  serialze_lookup
        \o <<W(12, to_le_bytes(
                       ReadSampleClockSourceAsU8(b.read_sample_clk_src), 1),
               "readSampleClkSrc"),
             W(13, <<b.cs_hold_time>>, "csHoldTime"),
             W(14, <<b.cs_setup_time>>, "csSetupTime"),
             W(15, <<ColumnAddressWidthAsU8(b.column_address_width)>>,
               "columnAddressWidth"),
             W(16, IF mode.enabled THEN <<1>> ELSE <<0>>,
               "deviceModeCfgEnable"),
             W(19, to_le_bytes(b.wait_time_cfg_commands, 2),
               "waitTimeCfgCommands")>>
        \o (IF mode.enabled
            THEN <<W(20, mode.device_mode_seq, "deviceModeSeq"),
                   W(24, to_le_bytes(mode.device_mode_arg, 4),
                     "deviceModeArg")>>
            ELSE <<>>)
        \o <<W(68, <<1>>, "deviceType"),
             W(69, to_le_bytes(FlashPadTypeAsU8(b.serial_flash_pad_type), 1),
               "sflashPadType"),
             W(70, to_le_bytes(SerialClockFrequencyAsU8(b.serial_clk_freq), 1),
               "serialClkFreq"),
             W(80, to_le_bytes(b.flash_size[1], 4), "sflashA1Size"),
             W(84, to_le_bytes(b.flash_size[2], 4), "sflashA2Size"),
             W(88, to_le_bytes(b.flash_size[3], 4), "sflashB1Size"),
             W(92, to_le_bytes(b.flash_size[4], 4), "sflashB2Size"),
             W(448, to_le_bytes(norcb.page_size, 4), "pageSize"),
             W(452, to_le_bytes(norcb.sector_size, 4), "sectorSize"),
             W(456, to_le_bytes(norcb.ip_cmd_serial_clk_freq, 1),
               "ipCmdSerialClkFreq")>>

ClockIdle ==
    /\ chip = "Imxrt1010" /\ opt = "MHz30"
    /\ try_scf = NotCalled /\ try_ipscf = NotCalled
    /\ scf = NotCalled /\ ipscf = NotCalled

InstrIdle ==
    /\ opcode = 0 /\ pads = "One" /\ operand = 0 /\ instr = <<>>

SeqIdle ==
    /\ sb = SequenceBuilder_new /\ sb_log = <<>> /\ built = <<>>

NoSequence == <<>>

NoLutOp == [name |-> "none", cmd |-> "none", index |-> 0, seq |-> NoSequence]

LutIdle ==
    /\ lut = LookupTable_new
    /\ lut_last = [i \in 0 .. NUMBER_OF_SEQUENCES - 1 |-> NoSequence]
    /\ table = ByteTable_new
    /\ table_last = [i \in 0 .. NUMBER_OF_SEQUENCES - 1 |-> NoSequence]
    /\ calls = 0
    /\ lut_op = NoLutOp

NoBlock == <<>>

FcbIdle ==
    /\ api = "flexspi" /\ cb_lut = NoBlock /\ cb = NoBlock /\ cb_log = <<>>

NorIdle ==
    /\ cfg_feature = "imxrt1010" /\ nor_input = NoBlock /\ nor = NoBlock
    /\ nor_log = <<>>

BuilderIdle ==
    /\ wt = [fn |-> "none", d |-> [secs |-> 0, nanos |-> 0], us |-> 0,
             result |-> [some |-> FALSE, v |-> 0]]
    /\ fb = NoBlock /\ fb_writes = <<>>

InitClock ==
    /\ unit = "clock"
    /\ chip \in Imxrt
    /\ opt \in SerialClockOption
    /\ try_scf = NotCalled /\ try_ipscf = NotCalled
    /\ scf = NotCalled /\ ipscf = NotCalled
    /\ InstrIdle /\ SeqIdle /\ LutIdle /\ FcbIdle /\ NorIdle /\ BuilderIdle

CallTrySerialClockFrequency ==
    /\ unit = "clock"
    /\ try_scf = NotCalled
    /\ try_scf' = try_serial_clock_frequency(chip, opt)
    /\ UNCHANGED <<unit, chip, opt, try_ipscf, scf, ipscf, instr_vars, seq_vars, lut_vars, fcb_vars, nor_vars,
                   builder_vars>>

CallTryIpSerialClockFrequency ==
    /\ unit = "clock"
    /\ try_ipscf = NotCalled
    /\ try_ipscf' = try_ip_serial_clock_frequency(chip, opt)
    /\ UNCHANGED <<unit, chip, opt, try_scf, scf, ipscf, instr_vars, seq_vars, lut_vars, fcb_vars, nor_vars,
                   builder_vars>>

CallSerialClockFrequency ==
    /\ unit = "clock"
    /\ scf = NotCalled
    /\ scf' = serial_clock_frequency(chip, opt)
    /\ UNCHANGED <<unit, chip, opt, try_scf, try_ipscf, ipscf, instr_vars, seq_vars, lut_vars, fcb_vars, nor_vars,
                   builder_vars>>

CallIpSerialClockFrequency ==
    /\ unit = "clock"
    /\ ipscf = NotCalled
    /\ ipscf' = ip_serial_clock_frequency(chip, opt)
    /\ UNCHANGED <<unit, chip, opt, try_scf, try_ipscf, scf, instr_vars, seq_vars, lut_vars, fcb_vars, nor_vars,
                   builder_vars>>

NextClock ==
    \/ CallTrySerialClockFrequency
    \/ CallTryIpSerialClockFrequency
    \/ CallSerialClockFrequency
    \/ CallIpSerialClockFrequency

SpecClock == InitClock /\ [][NextClock]_vars

(***************************************************************************)
(* Unit "instr": one Instr::new call on a drawn (opcode, pads, operand).   *)
(***************************************************************************)
InitInstr ==
    /\ unit = "instr"
    /\ opcode \in U8
    /\ pads \in Pads
    /\ operand \in U8
    /\ instr = <<>>
    /\ ClockIdle /\ SeqIdle /\ LutIdle /\ FcbIdle /\ NorIdle /\ BuilderIdle

CallInstrNew ==
    /\ unit = "instr"
    /\ instr = <<>>
    /\ instr' = Instr_new(opcode, pads, operand)
    /\ UNCHANGED <<unit, clock_vars, opcode, pads, operand, seq_vars, lut_vars, fcb_vars, nor_vars,
                   builder_vars>>

NextInstr == CallInstrNew

SpecInstr == InitInstr /\ [][NextInstr]_vars

(***************************************************************************)
(* Unit "seq": SequenceBuilder::new() followed by instr calls and build.   *)
(***************************************************************************)
NumInstrs == 3

\* The instructions offered to the builder: the Teensy 4 page-program
\* sequence, a STOP in the middle of a sequence, and more.
SampleInstrs ==
    <<Instr_new(OPCODE_CMD, "One", 6),
      Instr_new(OPCODE_RADDR, "Four", 24),
      STOP,
      Instr_new(OPCODE_WRITE, "One", 4),
      Instr_new(to_ddr(OPCODE_READ), "Eight", 255),
      JUMP_ON_CS>>

BuilderInstrs == {SampleInstrs[i] : i \in 1 .. NumInstrs}

InitSeq ==
    /\ unit = "seq"
    /\ SeqIdle
    /\ ClockIdle /\ InstrIdle /\ LutIdle /\ FcbIdle /\ NorIdle /\ BuilderIdle

CallInstr(i) ==
    /\ unit = "seq"
    /\ ~sb.panicked
    /\ built = <<>>
    /\ sb' = SequenceBuilder_instr(sb, i)
    /\ sb_log' = Append(sb_log, i)
    /\ UNCHANGED <<unit, clock_vars, instr_vars, built, lut_vars, fcb_vars, nor_vars,
                   builder_vars>>

CallBuild ==
    /\ unit = "seq"
    /\ ~sb.panicked
    /\ built = <<>>
    /\ built' = SequenceBuilder_build(sb)
    /\ UNCHANGED <<unit, clock_vars, instr_vars, sb, sb_log, lut_vars, fcb_vars, nor_vars,
                   builder_vars>>

NextSeq ==
    \/ \E i \in BuilderInstrs : CallInstr(i)
    \/ CallBuild

SpecSeq == InitSeq /\ [][NextSeq]_vars

(***************************************************************************)
(* Unit "lut" / "table": LookupTable::new() followed by assignments, for   *)
(* the flexspi and the serial_flash implementation respectively.           *)
(***************************************************************************)
MaxCalls == 3

MaxIndex == 16

NumSequences == 2

\* The Teensy 4 read, write-enable and chip-erase sequences.
SampleSequences ==
    <<SequenceBuilder_build(
        SequenceBuilder_instr(SequenceBuilder_instr(SequenceBuilder_instr(
        SequenceBuilder_instr(SequenceBuilder_new,
            Instr_new(OPCODE_CMD, "One", 235)),
            Instr_new(OPCODE_RADDR, "Four", 24)),
            Instr_new(OPCODE_DUMMY, "Four", 6)),
            Instr_new(OPCODE_READ, "Four", 4))),
      SequenceBuilder_build(
        SequenceBuilder_instr(SequenceBuilder_new,
            Instr_new(OPCODE_CMD, "One", 6))),
      Sequence_stopped,
      SequenceBuilder_build(
        SequenceBuilder_instr(SequenceBuilder_new,
            Instr_new(OPCODE_CMD, "Two", 222)))>>

TableSequences == {SampleSequences[i] : i \in 1 .. NumSequences}

InitLut ==
    /\ unit \in {"lut", "table"}
    /\ LutIdle
    /\ ClockIdle /\ InstrIdle /\ SeqIdle /\ FcbIdle /\ NorIdle /\ BuilderIdle

CallCommand(cmd, seq) ==
    /\ unit = "lut"
    /\ ~lut.panicked
    /\ calls < MaxCalls
    /\ lut' = LookupTable_command(lut, cmd, seq)
    /\ lut_last' = [lut_last EXCEPT ![CommandAsUsize(cmd)] = seq]
    /\ calls' = calls + 1
    /\ lut_op' = [name |-> "command", cmd |-> cmd,
                  index |-> CommandAsUsize(cmd), seq |-> seq]
    /\ UNCHANGED <<unit, clock_vars, instr_vars, seq_vars, table, table_last,
                   fcb_vars, nor_vars,
                   builder_vars>>

CallCustomCommand(index, seq) ==
    /\ unit = "lut"
    /\ ~lut.panicked
    /\ calls < MaxCalls
    /\ lut' = LookupTable_custom_command(lut, index, seq)
    /\ lut_last' = IF index \in DOMAIN lut_last
                   THEN [lut_last EXCEPT ![index] = seq]
                   ELSE lut_last
    /\ calls' = calls + 1
    /\ lut_op' = [name |-> "custom_command", cmd |-> "none",
                  index |-> index, seq |-> seq]
    /\ UNCHANGED <<unit, clock_vars, instr_vars, seq_vars, table, table_last,
                   fcb_vars, nor_vars,
                   builder_vars>>

CallCommandSet(cmd, seq) ==
    /\ unit = "table"
    /\ calls < MaxCalls
    /\ table' = ByteTable_command_set(table, cmd, seq)
    /\ table_last' = [table_last EXCEPT ![CommandAsUsize(cmd)] = seq]
    /\ calls' = calls + 1
    /\ lut_op' = [name |-> "command_set", cmd |-> cmd,
                  index |-> CommandAsUsize(cmd), seq |-> seq]
    /\ UNCHANGED <<unit, clock_vars, instr_vars, seq_vars, lut, lut_last,
                   fcb_vars, nor_vars,
                   builder_vars>>

NextLut ==
    \/ \E cmd \in Command, seq \in TableSequences : CallCommand(cmd, seq)
    \/ \E index \in 0 .. MaxIndex, seq \in TableSequences :
           CallCustomCommand(index, seq)
    \/ \E cmd \in Command, seq \in TableSequences : CallCommandSet(cmd, seq)

SpecLut == InitLut /\ [][NextLut]_vars

(***************************************************************************)
(* Unit "fcb": ConfigurationBlock::new(lut) followed by setter calls, for  *)
(* flexspi::ConfigurationBlock and serial_flash::FlexSPIConfigurationBlock.*)
(***************************************************************************)
MaxSetterCalls == 2

\* The lookup tables handed to new(): an empty one and one with the Teensy 4
\* read sequence as the Read command.
SampleLookupTables(a) ==
    IF a = "flexspi"
    THEN {LookupTable_new,
          LookupTable_command(LookupTable_new, "Read", SampleSequences[1])}
    ELSE {ByteTable_new,
          ByteTable_command_set(ByteTable_new, "Read", SampleSequences[1])}

SampleDeviceModes(a) ==
    <<[enabled |-> FALSE, device_mode_seq |-> ZeroBytes(4),
       device_mode_arg |-> 0],
      [enabled |-> TRUE,
       device_mode_seq |-> IF a = "flexspi"
                           THEN DeviceModeSequence_new(1, 2)
                           ELSE DeviceModeSequence_new_word(1, 2),
       device_mode_arg |-> 64],
      [enabled |-> TRUE,
       device_mode_seq |-> IF a = "flexspi"
                           THEN DeviceModeSequence_new(255, 15)
                           ELSE DeviceModeSequence_new_word(255, 15),
       device_mode_arg |-> 16909060]>>

InitFcb ==
    /\ unit = "fcb"
    /\ api \in Api
    /\ cb_lut \in SampleLookupTables(api)
    /\ cb = BlockNew(api, cb_lut)
    /\ cb_log = <<>>
    /\ ClockIdle /\ InstrIdle /\ SeqIdle /\ LutIdle /\ NorIdle /\ BuilderIdle

\* A setter call `block.name(arg)`: the block is replaced by the returned
\* one.
SetterCall(name, region, arg, result) ==
    /\ unit = "fcb"
    /\ Len(cb_log) < MaxSetterCalls
    /\ cb' = result
    /\ cb_log' = Append(cb_log, [name |-> name, region |-> region, arg |-> arg])
    /\ UNCHANGED <<unit, clock_vars, instr_vars, seq_vars, lut_vars, api,
                   cb_lut, nor_vars,
                   builder_vars>>

CallVersion(v) ==
    /\ api = "flexspi"
    /\ SetterCall("version", "none", v, ConfigurationBlock_version(cb, v))

CallReadSampleClkSrc(v) ==
    SetterCall("read_sample_clk_src", "none", v,
               ConfigurationBlock_read_sample_clk_src(cb, v))

CallCsHoldTime(v) ==
    SetterCall("cs_hold_time", "none", v,
               ConfigurationBlock_cs_hold_time(cb, v))

CallCsSetupTime(v) ==
    SetterCall("cs_setup_time", "none", v,
               ConfigurationBlock_cs_setup_time(cb, v))

CallColumnAddressWidth(v) ==
    SetterCall("column_address_width", "none", v,
               ConfigurationBlock_column_address_width(cb, v))

CallDeviceModeConfiguration(mode) ==
    SetterCall("device_mode_configuration", "none", mode,
               ConfigurationBlock_device_mode_configuration(cb, mode))

CallWaitTimeCfgCommands(v) ==
    SetterCall("wait_time_cfg_commands", "none", v,
               ConfigurationBlock_wait_time_cfg_commands(cb, v))

CallSerialFlashPadType(v) ==
    SetterCall("serial_flash_pad_type", "none", v,
               ConfigurationBlock_serial_flash_pad_type(cb, v))

CallSerialClkFreq(v) ==
    SetterCall("serial_clk_freq", "none", v,
               ConfigurationBlock_serial_clk_freq(cb, v))

CallFlashSize(region, size) ==
    SetterCall("flash_size", region, size,
               ConfigurationBlock_flash_size(cb, region, size))

CallControllerMiscOptions(v) ==
    /\ api = "flexspi"
    /\ SetterCall("controller_misc_options", "none", v,
                  ConfigurationBlock_controller_misc_options(cb, v))

NextFcb ==
    \/ \E v \in {Version_new(1, 4, 0), Version_new(2, 0, 9),
                Version_new(255, 255, 255)} : CallVersion(v)
    \/ \E v \in ReadSampleClockSource : CallReadSampleClkSrc(v)
    \/ \E v \in {1, 255} : CallCsHoldTime(v)
    \/ \E v \in {1, 255} : CallCsSetupTime(v)
    \/ \E v \in ColumnAddressWidth : CallColumnAddressWidth(v)
    \/ \E i \in 1 .. 3 : CallDeviceModeConfiguration(SampleDeviceModes(api)[i])
    \/ \E us \in {40000, 65535} :
           CallWaitTimeCfgCommands(WaitTimeConfigurationCommands_new(us))
    \/ \E v \in FlashPadType : CallSerialFlashPadType(v)
    \/ \E v \in {"MHz30", "MHz100"} : CallSerialClkFreq(v)
    \/ \E region \in SerialFlashRegion, size \in {8388608, 2097152} :
           CallFlashSize(region, size)
    \/ \E v \in {16, 2147483647} : CallControllerMiscOptions(v)

SpecFcb == InitFcb /\ [][NextFcb]_vars

(***************************************************************************)
(* Unit "nor": nor::ConfigurationBlock::new(mem_cfg) on a drawn FlexSPI    *)
(* block, followed by setter calls, for a drawn chip feature.              *)
(***************************************************************************)
MaxNorCalls == 2

\* The FlexSPI blocks handed to nor::ConfigurationBlock::new: a default
\* block, the i.MX RT 1020 EVK block and a default block whose table also
\* holds a write-enable sequence, each with the device_type values 0 (as
\* left by flexspi::ConfigurationBlock::new), 1 and 2.
SampleMemCfgs ==
    LET t    == LookupTable_command(LookupTable_new, "Read",
                                    SampleSequences[1])
        evk  == ConfigurationBlock_flash_size(
                  ConfigurationBlock_serial_clk_freq(
                    ConfigurationBlock_serial_flash_pad_type(
                      ConfigurationBlock_read_sample_clk_src(
                        ConfigurationBlock_version(
                          ConfigurationBlock_new(t), Version_new(1, 4, 0)),
                        "LoopbackFromDQSPad"),
                      "Quad"),
                    "MHz100"),
                  "A1", 8388608)
        two  == ConfigurationBlock_new(
                  LookupTable_command(t, "WriteEnable", SampleSequences[2]))
        base == {ConfigurationBlock_new(LookupTable_new), evk, two}
    IN  {[b EXCEPT !.device_type = d] : b \in base, d \in {0, 1, 2}}

InitNor ==
    /\ unit = "nor"
    /\ cfg_feature \in Features
    /\ nor_input \in SampleMemCfgs
    /\ nor = NoBlock
    /\ nor_log = <<>>
    /\ ClockIdle /\ InstrIdle /\ SeqIdle /\ LutIdle /\ FcbIdle /\ BuilderIdle

CallNorNew ==
    /\ unit = "nor"
    /\ nor = NoBlock
    /\ nor' = nor_ConfigurationBlock_new(cfg_feature, nor_input)
    /\ nor_log' = <<[name |-> "new", arg |-> 0]>>
    /\ UNCHANGED <<unit, clock_vars, instr_vars, seq_vars, lut_vars, fcb_vars,
                   cfg_feature, nor_input, builder_vars>>

\* A setter call `block.name(arg)` on the NOR block; nor_log holds new()
\* and the setter calls made so far.
NorSetterCall(name, arg, result) ==
    /\ unit = "nor"
    /\ nor # NoBlock
    /\ Len(nor_log) <= MaxNorCalls
    /\ nor' = result
    /\ nor_log' = Append(nor_log, [name |-> name, arg |-> arg])
    /\ UNCHANGED <<unit, clock_vars, instr_vars, seq_vars, lut_vars, fcb_vars,
                   cfg_feature, nor_input, builder_vars>>

CallPageSize(v) ==
    NorSetterCall("page_size", v, nor_ConfigurationBlock_page_size(nor, v))

CallSectorSize(v) ==
    NorSetterCall("sector_size", v,
                  nor_ConfigurationBlock_sector_size(nor, v))

\* Only the variants compiled in for the feature can be passed.
CallIpCmdSerialClkFreq(v) ==
    /\ NorHasVariant(cfg_feature, v)
    /\ NorSetterCall("ip_cmd_serial_clk_freq", v,
                     nor_ConfigurationBlock_ip_cmd_serial_clk_freq(nor, v))

\* block_size exists only with the imxrt1170 / imxrt1180 features.
CallBlockSize(v) ==
    /\ HasImxrt11xxExtras(cfg_feature)
    /\ NorSetterCall("block_size", v,
                     nor_ConfigurationBlock_block_size(nor, v))

NextNor ==
    \/ CallNorNew
    \/ \E v \in {256, 66051} : CallPageSize(v)
    \/ \E v \in {4096, 67438087} : CallSectorSize(v)
    \/ \E v \in {"MHz30", "MHz133", "MHz166"} : CallIpCmdSerialClkFreq(v)
    \/ \E v \in {65536, 4096} : CallBlockSize(v)

SpecNor == InitNor /\ [][NextNor]_vars

(***************************************************************************)
(* Unit "builder": a wait time is constructed, FCBBuilder::new is followed *)
(* by wait_time_cfg_commands and device_mode_configuration calls, and      *)
(* build() ends the chain.                                                 *)
(***************************************************************************)
InitBuilder ==
    /\ unit = "builder"
    /\ wt = [fn |-> "none", d |-> [secs |-> 0, nanos |-> 0], us |-> 0,
             result |-> [some |-> FALSE, v |-> 0]]
    /\ \E t \in SampleLookupTables("flexspi"), page_size \in {0, 256} :
           fb = FCBBuilder_new([page_size |-> page_size,
                                sector_size |-> 4096,
                                ip_cmd_serial_clk_freq |-> 0], t)
    /\ fb_writes = <<>>
    /\ ClockIdle /\ InstrIdle /\ SeqIdle /\ LutIdle /\ FcbIdle /\ NorIdle

\* WaitTimeConfigurationCommands::from_duration(wait_time)
CallFromDuration(wait_time) ==
    /\ unit = "builder" /\ fb_writes = <<>>
    /\ wt' = [fn |-> "from_duration", d |-> wait_time, us |-> 0,
              result |->
                  WaitTimeConfigurationCommands_from_duration(wait_time)]
    /\ UNCHANGED <<unit, clock_vars, instr_vars, seq_vars, lut_vars, fcb_vars,
                   nor_vars, fb, fb_writes>>

\* flexspi::WaitTimeConfigurationCommands::new(wait_time_us)
CallWaitNew(wait_time_us) ==
    /\ unit = "builder" /\ fb_writes = <<>>
    /\ wt' = [fn |-> "new", d |-> [secs |-> 0, nanos |-> 0],
              us |-> wait_time_us,
              result |-> [some |-> TRUE,
                          v |-> WaitTimeConfigurationCommands_new(
                                    wait_time_us)]]
    /\ UNCHANGED <<unit, clock_vars, instr_vars, seq_vars, lut_vars, fcb_vars,
                   nor_vars, fb, fb_writes>>

\* FCBBuilder::wait_time_cfg_commands with the wait time constructed last.
CallBuilderWaitTime ==
    /\ unit = "builder" /\ fb_writes = <<>>
    /\ wt.result.some
    /\ fb' = [fb EXCEPT !.wait_time_cfg_commands = wt.result.v]
    /\ UNCHANGED <<unit, clock_vars, instr_vars, seq_vars, lut_vars, fcb_vars,
                   nor_vars, wt, fb_writes>>

\* FCBBuilder::device_mode_configuration
CallBuilderDeviceMode(mode) ==
    /\ unit = "builder" /\ fb_writes = <<>>
    /\ fb' = [fb EXCEPT !.device_mode_configuration = mode]
    /\ UNCHANGED <<unit, clock_vars, instr_vars, seq_vars, lut_vars, fcb_vars,
                   nor_vars, wt, fb_writes>>

\* FCBBuilder::build
CallFcbBuild ==
    /\ unit = "builder" /\ fb_writes = <<>>
    /\ fb_writes' = FCBBuilder_build(fb)
    /\ UNCHANGED <<unit, clock_vars, instr_vars, seq_vars, lut_vars, fcb_vars,
                   nor_vars, wt, fb>>

NextBuilder ==
    \/ \E secs \in {0, 6, 7},
          nanos \in {0, 99999, 100000, 40000000, 553599999, 553600000,
                     999999999} :
           CallFromDuration([secs |-> secs, nanos |-> nanos])
    \/ \E us \in {0, 99, 100, 199, 40000, 65535} : CallWaitNew(us)
    \/ CallBuilderWaitTime
    \/ \E i \in 1 .. 3 :
           CallBuilderDeviceMode(SampleDeviceModes("serial_flash")[i])
    \/ CallFcbBuild

SpecBuilder == InitBuilder /\ [][NextBuilder]_vars

(***************************************************************************)
(* Properties of the clock policy (checked under SpecClock).               *)
(***************************************************************************)

\* C1: for every family and option, try_serial_clock_frequency (table
\* element 0) and try_ip_serial_clock_frequency (table element 1) return
\* Err(NotSupportedForChip) exactly when the family's table entry is 0 and
\* otherwise Ok carrying exactly that non-zero entry; no Ok carries code 0.
TryResultMatchesEntry(r, entry) ==
    /\ (r = Err(NotSupportedForChip)) <=> (entry = 0)
    /\ (entry # 0) => (r = Ok(entry))
    /\ (r.tag = "Ok") => (r.value # 0)
    /\ r.tag \in {"Ok", "Err"}

C1_TryReturnsEntryOrNotSupported ==
    /\ (try_scf # NotCalled) =>
           TryResultMatchesEntry(try_scf, ChipTable(chip, opt)[1])
    /\ (try_ipscf # NotCalled) =>
           TryResultMatchesEntry(try_ipscf, ChipTable(chip, opt)[2])

\* The 1010 family at 120 MHz: the serial clock is supported (7), the IP
\* serial clock is not.
C1_Witness ==
    /\ chip = "Imxrt1010" /\ opt = "MHz120"
    /\ try_scf = Ok(7)
    /\ try_ipscf = Err(NotSupportedForChip)

\* C2: for the 1040 family, serial_clock_frequency and
\* ip_serial_clock_frequency both map MHz30, MHz50, MHz60, MHz75, MHz80,
\* MHz100, MHz120, MHz133, MHz166 to 1..9 and neither panics.
Codes1040 ==
    [o \in SerialClockOption |->
        CASE o = "MHz30"  -> 1 [] o = "MHz50"  -> 2 [] o = "MHz60"  -> 3
          [] o = "MHz75"  -> 4 [] o = "MHz80"  -> 5 [] o = "MHz100" -> 6
          [] o = "MHz120" -> 7 [] o = "MHz133" -> 8 [] o = "MHz166" -> 9]

C2_Imxrt1040Codes ==
    (chip = "Imxrt1040") =>
        /\ (scf # NotCalled) => (scf = Ok(Codes1040[opt]))
        /\ (ipscf # NotCalled) => (ipscf = Ok(Codes1040[opt]))

C2_Witness ==
    /\ chip = "Imxrt1040" /\ opt = "MHz166"
    /\ scf = Ok(9) /\ ipscf = Ok(9)

\* C3: for the 1050 family, the FlexSPI serial clock frequency and the NOR
\* IP serial clock frequency both encode MHz30..MHz100 as 1..6, MHz133 as 7
\* and MHz166 as 8; the IP 'no change' value is 0; 120 MHz is not available.
Codes1050 ==
    [o \in SerialClockOption |->
        CASE o = "MHz30"  -> 1 [] o = "MHz50"  -> 2 [] o = "MHz60"  -> 3
          [] o = "MHz75"  -> 4 [] o = "MHz80"  -> 5 [] o = "MHz100" -> 6
          [] o = "MHz120" -> 0 [] o = "MHz133" -> 7 [] o = "MHz166" -> 8]

TryResultIs(r, code) ==
    IF code = 0 THEN r = Err(NotSupportedForChip) ELSE r = Ok(code)

C3_Imxrt1050Codes ==
    (chip = "Imxrt1050") =>
        /\ (try_scf # NotCalled) => TryResultIs(try_scf, Codes1050[opt])
        /\ (try_ipscf # NotCalled) =>
              /\ TryResultIs(try_ipscf, Codes1050[opt])
              /\ NorHasVariant("imxrt1050", opt) <=> (Codes1050[opt] # 0)
              /\ NorHasVariant("imxrt1050", opt) =>
                     NorDiscriminant("imxrt1050", opt) = Codes1050[opt]
              /\ NorDiscriminant("imxrt1050", "NoChange") = 0
              /\ try_ipscf.tag = "Ok" =>
                     try_ipscf.value # NorDiscriminant("imxrt1050", "NoChange")

C3_Witness ==
    /\ chip = "Imxrt1050" /\ opt = "MHz120"
    /\ try_scf = Err(NotSupportedForChip)
    /\ try_ipscf = Err(NotSupportedForChip)

\* C4: for the 1160 family, the FlexSPI serial clock frequency encodes
\* MHz30, MHz50, MHz60, MHz80, MHz100, MHz120, MHz133, MHz166 as 1..8; the
\* NOR IP serial clock frequency encodes MHz30, MHz50, MHz60, MHz80, MHz100,
\* MHz120, MHz133 as 1..7 (0 is 'no change', never a code); 75 MHz is not
\* available.
Codes1160 ==
    [o \in SerialClockOption |->
        CASE o = "MHz30"  -> 1 [] o = "MHz50"  -> 2 [] o = "MHz60"  -> 3
          [] o = "MHz75"  -> 0 [] o = "MHz80"  -> 4 [] o = "MHz100" -> 5
          [] o = "MHz120" -> 6 [] o = "MHz133" -> 7 [] o = "MHz166" -> 8]

C4_Imxrt1160Codes ==
    (chip = "Imxrt1160") =>
        /\ (try_scf # NotCalled) => TryResultIs(try_scf, Codes1160[opt])
        /\ (try_ipscf # NotCalled /\ opt # "MHz166") =>
               TryResultIs(try_ipscf, Codes1160[opt])
        /\ (try_ipscf.tag = "Ok") => (try_ipscf.value # 0)

C4_Witness ==
    /\ chip = "Imxrt1160" /\ opt = "MHz80"
    /\ try_scf = Ok(4) /\ try_ipscf = Ok(4)

\* C5: for every family and option the panicking variants
\* serial_clock_frequency / ip_serial_clock_frequency panic exactly when the
\* corresponding try_ variant returns Err(NotSupportedForChip), otherwise
\* return the try_ variant's Ok value; they never return a value for an
\* unsupported combination.
PanickingAgreesWithTry(p, t, entry) ==
    /\ (p.tag = "Panic") <=> (t = Err(NotSupportedForChip))
    /\ (t.tag = "Ok") => (p = Ok(t.value))
    /\ (entry = 0) => (p.tag # "Ok")
    /\ p.tag \in {"Ok", "Panic"}

C5_PanicExactlyWhenTryErr ==
    /\ (scf # NotCalled /\ try_scf # NotCalled) =>
           PanickingAgreesWithTry(scf, try_scf, ChipTable(chip, opt)[1])
    /\ (ipscf # NotCalled /\ try_ipscf # NotCalled) =>
           PanickingAgreesWithTry(ipscf, try_ipscf, ChipTable(chip, opt)[2])

C5_Witness ==
    /\ chip = "Imxrt1010" /\ opt = "MHz120"
    /\ try_scf = Ok(7) /\ scf = Ok(7)
    /\ try_ipscf = Err(NotSupportedForChip) /\ ipscf.tag = "Panic"

(***************************************************************************)
(* Properties of the instruction encoder (checked under SpecInstr).        *)
(***************************************************************************)
PadCode == [p \in Pads |->
               CASE p = "One" -> 0 [] p = "Two" -> 1
                 [] p = "Four" -> 2 [] p = "Eight" -> 3]

\* C6: Instr::new(opcode, pads, operand) produces exactly two bytes: byte 0
\* is the operand, byte 1 is (opcode << 2) | pads in 8-bit arithmetic, with
\* pads One/Two/Four/Eight encoded as 0/1/2/3; STOP is 00 00; every operand
\* 0..255 is accepted and stored unchanged.
C6_InstrEncoding ==
    /\ STOP = <<0, 0>>
    /\ (instr # <<>>) =>
          /\ Len(instr) = 2
          /\ instr[1] = operand
          /\ instr[2] = ((opcode * 4) % 256) + PadCode[pads]
          /\ (opcode < 64) => (instr[2] = 4 * opcode + PadCode[pads])
          /\ (opcode = 0 /\ operand = 0 /\ pads = "One") => (instr = STOP)

\* READ on one pad with operand 0x04 is 04 24 (teensy4_read_status).
C6_Witness ==
    /\ opcode = OPCODE_READ /\ pads = "One" /\ operand = 4
    /\ instr = <<4, 36>>

\* Decoding by the bit arithmetic of the encoding:
\* <<opcode, padwidth, operand>> = <<byte 1 >> 2, byte 1 & 3, byte 0>>.
Decode(i) == <<Shr8(i[2], 2), BitAnd(i[2], 3), i[1]>>

\* C7 (as stated): for every 8-bit opcode, pad width 0..3 and 8-bit operand,
\* encoding with Instr::new and decoding recovers the triple.
C7_RoundTripAllOpcodes ==
    (instr # <<>>) => (Decode(instr) = <<opcode, PadCode[pads], operand>>)

\* C7 (amended): the round trip holds for every opcode that fits in six bits
\* (0..63), whether or not it is one of the defined opcodes; for a larger
\* opcode the pad width and operand are still recovered and the opcode is
\* recovered modulo 64.
C7_RoundTripSixBitOpcodes ==
    (instr # <<>>) =>
        /\ (opcode < 64) =>
               (Decode(instr) = <<opcode, PadCode[pads], operand>>)
        /\ Decode(instr) = <<opcode % 64, PadCode[pads], operand>>

\* Opcode 0x3F is no defined opcode and still round-trips.
C7_Witness ==
    /\ opcode = 63 /\ opcode \notin DefinedOpcodes
    /\ pads = "Eight" /\ operand = 255
    /\ instr = <<255, 255>>
    /\ Decode(instr) = <<63, 3, 255>>

(***************************************************************************)
(* Properties of the sequence builder (checked under SpecSeq).             *)
(***************************************************************************)

\* C8: SequenceBuilder::new(), k <= 8 calls of instr and build() yield a
\* sequence whose slot i (bytes 2i, 2i+1) holds the i-th supplied
\* instruction for i < k and whose slots k..7 hold STOP (00 00).
C8_BuiltSequenceLayout ==
    (built # <<>>) =>
        LET bytes == seq_to_bytes(built)
            k     == Len(sb_log)
        IN  /\ Len(bytes) = 16
            /\ k <= 8
            /\ \A i \in 0 .. (k - 1) :
                   <<bytes[2 * i + 1], bytes[2 * i + 2]>> = sb_log[i + 1]
            /\ \A i \in k .. 7 :
                   bytes[2 * i + 1] = 0 /\ bytes[2 * i + 2] = 0

\* A single CMD(0x06, one pad): 06 04 and fourteen zero bytes.
C8_Witness ==
    /\ sb_log = << <<6, 4>> >>
    /\ built # <<>>
    /\ seq_to_bytes(built) = <<6, 4, 0, 0, 0, 0, 0, 0, 0, 0, 0, 0, 0, 0, 0, 0>>

\* C9: the builder accepts exactly eight instr calls: the 9th call fails, so
\* no Sequence is produced from more than 8 instructions; in every
\* non-failed builder state the offset equals the number of instr calls made
\* and is at most 8.
C9_BuilderLimit ==
    /\ (~sb.panicked) => (sb.offset = Len(sb_log) /\ sb.offset <= 8)
    /\ sb.panicked <=> (Len(sb_log) > 8)
    /\ (built # <<>>) => (~sb.panicked /\ Len(sb_log) <= 8)

\* Eight instr calls followed by a successful build.
C9_Witness ==
    /\ Len(sb_log) = 8
    /\ sb.offset = 8
    /\ ~sb.panicked
    /\ built = sb_log

(***************************************************************************)
(* Properties of the lookup tables (checked under SpecLut).                *)
(***************************************************************************)
ZeroBytes16 == [i \in 1 .. 16 |-> 0]

\* Bytes 16*i .. 16*i+15 of a serialized table.
SlotBytes(bytes, i) == SubSeq(bytes, 16 * i + 1, 16 * i + 16)

ExpectedSlotBytes(last, i) ==
    IF last[i] = NoSequence THEN ZeroBytes16 ELSE seq_to_bytes(last[i])

\* C10: after LookupTable::new() and any assignments with indices in 0..15
\* the table has exactly 16 slots (256 bytes) and every slot i holds the
\* sequence most recently assigned to index i, or 16 zero bytes (all STOP) if
\* index i was never assigned.  (An assignment to index i changes the record
\* of no other index, so it leaves the other 15 slots as they were.)
C10_TableHoldsLastAssigned ==
    /\ (unit = "lut" /\ ~lut.panicked) =>
          LET bytes == LookupTableBytes(lut.slots)
          IN  /\ Len(lut.slots) = 16
              /\ Len(bytes) = 256
              /\ \A i \in 0 .. 15 :
                     SlotBytes(bytes, i) = ExpectedSlotBytes(lut_last, i)
    /\ (unit = "table") =>
          /\ Len(table) = 256
          /\ \A i \in 0 .. 15 :
                 SlotBytes(table, i) = ExpectedSlotBytes(table_last, i)

\* Three assignments leaving two assigned slots: the custom index 2 and the
\* Read command.
C10_Witness ==
    /\ unit = "lut" /\ ~lut.panicked /\ calls = 3
    /\ lut_last[2] = SampleSequences[1]
    /\ lut_last[0] = SampleSequences[2]
    /\ \A i \in 0 .. 15 : (i \notin {0, 2}) => (lut_last[i] = NoSequence)
    /\ SlotBytes(LookupTableBytes(lut.slots), 2)
           = <<235, 4, 24, 10, 6, 50, 4, 38, 0, 0, 0, 0, 0, 0, 0, 0>>
    /\ SlotBytes(LookupTableBytes(lut.slots), 0)
           = <<6, 4, 0, 0, 0, 0, 0, 0, 0, 0, 0, 0, 0, 0, 0, 0>>

\* The slot numbers and byte ranges as stated for the standard commands.
StatedSlot(cmd) ==
    CASE cmd = "Read"        -> 0
      [] cmd = "ReadStatus"  -> 1
      [] cmd = "WriteEnable" -> 3
      [] cmd = "EraseSector" -> 5
      [] cmd = "PageProgram" -> 9
      [] cmd = "ChipErase"   -> 11
      [] cmd = "Dummy"       -> 15

StandardSlots == {0, 1, 3, 5, 9, 11, 15}

\* C11: command(cmd, seq) gives the same table as custom_command(slot, seq)
\* with slot = 0, 1, 3, 5, 9, 11, 15 for Read, ReadStatus, WriteEnable,
\* EraseSector, PageProgram, ChipErase, Dummy, and afterwards bytes
\* 16*slot .. 16*slot+15 of the table are the sequence's bytes, so that byte
\* 16*slot is the operand of the sequence's first instruction.  The same
\* placement holds for the byte-array table's command(cmd) + set(seq).
C11_CommandPlacesAtFixedSlot ==
    [][ /\ (lut_op'.name = "command") =>
              LET slot == StatedSlot(lut_op'.cmd)
                  seq  == lut_op'.seq
              IN  /\ lut' = LookupTable_custom_command(lut, slot, seq)
                  /\ ~lut'.panicked
                  /\ SlotBytes(LookupTableBytes(lut'.slots), slot)
                         = seq_to_bytes(seq)
                  /\ LookupTableBytes(lut'.slots)[16 * slot + 1] = seq[1][1]
        /\ (lut_op'.name = "command_set") =>
              LET slot == StatedSlot(lut_op'.cmd)
                  seq  == lut_op'.seq
              IN  /\ SlotBytes(table', slot) = seq_to_bytes(seq)
                  /\ table'[16 * slot + 1] = seq[1][1]
                  /\ \A i \in 1 .. 256 :
                         (i <= 16 * slot \/ i > 16 * slot + 16)
                             => table'[i] = table[i]
      ]_vars

\* The Teensy 4 read sequence assigned to ChipErase: its first operand, 0xEB,
\* is table byte 11*16 in both implementations.
C11_Witness ==
    /\ lut_op.name \in {"command", "command_set"}
    /\ lut_op.cmd = "ChipErase"
    /\ lut_op.seq = SampleSequences[1]
    /\ (unit = "lut") => LookupTableBytes(lut.slots)[11 * 16 + 1] = 235
    /\ (unit = "table") => table[11 * 16 + 1] = 235

\* C12 as stated: custom_command with an index that is a standard Command
\* slot fails, so no table with such an assignment is produced.
C12_CollidingIndexRejected ==
    (lut_op.name = "custom_command" /\ lut_op.index \in StandardSlots)
        => lut.panicked

\* C12, amended: custom_command(index, seq) fails exactly when index >= 16.
\* With an index that is a standard Command slot it succeeds and the slot
\* holds seq, replacing whatever command() had put there: avoiding the
\* standard slots is left to the caller.
C12_CustomCommandOnlyBoundsChecked ==
    [][ (lut_op'.name = "custom_command") =>
            /\ lut'.panicked <=> (lut_op'.index >= 16)
            /\ (lut_op'.index \in StandardSlots) =>
                  /\ ~lut'.panicked
                  /\ lut'.slots[lut_op'.index + 1] = lut_op'.seq
                  /\ \A cmd \in Command :
                         (StatedSlot(cmd) = lut_op'.index) =>
                             lut' = LookupTable_command(lut, cmd, lut_op'.seq)
      ]_vars

\* command(Read, s1) followed by custom_command(0, s2): slot 0 holds s2.
C12_Witness ==
    /\ lut_op.name = "custom_command" /\ lut_op.index = 0
    /\ lut_op.seq = SampleSequences[2]
    /\ calls = 2
    /\ lut_last[0] = SampleSequences[2]
    /\ ~lut.panicked
    /\ lut.slots[1] = SampleSequences[2]

(***************************************************************************)
(* Properties of the FlexSPI configuration block (checked under SpecFcb).  *)
(***************************************************************************)
\* The byte at offset `off` and the bytes at offsets first .. last.
ByteAt(bytes, off) == bytes[off + 1]

BytesAt(bytes, first, last) == SubSeq(bytes, first + 1, last + 1)

\* The memory of the lookup table given to new().
GivenTableBytes ==
    IF api = "flexspi" THEN LookupTableBytes(cb_lut.slots) ELSE cb_lut

\* The block stated for new(lut): 'F','C','F','B', version 0x56010000,
\* csHoldTime = csSetupTime = 3, sFlashPadType = 1, serialClkFreq = clk, the
\* lookup table at 0x080..0x17F, and zero everywhere else.
StatedNewBytes(clk) ==
    [i \in 1 .. 448 |->
        LET off == i - 1
        IN  CASE off = 0 -> 70
              [] off = 1 -> 67
              [] off = 2 -> 70
              [] off = 3 -> 66
              [] off = 6 -> 1
              [] off = 7 -> 86
              [] off = 13 -> 3
              [] off = 14 -> 3
              [] off = 69 -> 1
              [] off = 70 -> clk
              [] off \in 128 .. 383 -> GivenTableBytes[off - 127]
              [] OTHER -> 0]

\* C13 as stated: new(lut) gives the listed defaults, the lookup table, and
\* zero in every other byte (byte 0x046, serialClkFreq, included).
C13_NewAllOtherBytesZero ==
    (unit = "fcb" /\ cb_log = <<>>) =>
        BlockBytes(api, cb) = StatedNewBytes(0)

\* C13, amended: flexspi::ConfigurationBlock::new(lut) gives tag 'FCFB',
\* version 0x56010000, readSampleClkSrc 0, csHoldTime = csSetupTime = 3,
\* columnAddressWidth 0, deviceModeCfgEnable 0, waitTimeCfgCommands 0,
\* deviceType 0, sFlashPadType 1, serialClkFreq 1 (the 30 MHz code), flash
\* sizes 0, the lookup table equal to lut, and every other byte zero.
\* FlexSPIConfigurationBlock::new of serial_flash gives the same block except
\* that its serialClkFreq byte is 0.
C13_NewDefaults ==
    (unit = "fcb" /\ cb_log = <<>>) =>
        /\ api = "flexspi" => BlockBytes(api, cb) = StatedNewBytes(1)
        /\ api = "serial_flash" => BlockBytes(api, cb) = StatedNewBytes(0)

\* flexspi::ConfigurationBlock::new on the table holding the Teensy 4 read
\* sequence.
C13_Witness ==
    /\ unit = "fcb" /\ api = "flexspi" /\ cb_log = <<>>
    /\ cb_lut # LookupTable_new
    /\ ByteAt(BlockBytes(api, cb), 70) = 1
    /\ BytesAt(BlockBytes(api, cb), 128, 135) = <<235, 4, 24, 10, 6, 50, 4, 38>>

\* TRUE iff no call of the setter `name` was made on cb.
NeverCalled(name) == \A i \in 1 .. Len(cb_log) : cb_log[i].name # name

\* C14: a block on which serial_clk_freq was never called has the 30 MHz
\* code, 1, in byte 0x046, and is byte-identical to the block obtained by
\* calling serial_clk_freq(SerialClockFrequency::MHz30) on it.
C14_DefaultClockIsMHz30 ==
    (unit = "fcb" /\ NeverCalled("serial_clk_freq")) =>
        /\ ByteAt(BlockBytes(api, cb), 70) = 1
        /\ BlockBytes(api, cb)
               = BlockBytes(api, ConfigurationBlock_serial_clk_freq(cb, "MHz30"))

\* The ten setters C15 names and the bytes stated to be theirs.
ListedSetters ==
    {"version", "read_sample_clk_src", "cs_hold_time", "cs_setup_time",
     "column_address_width", "wait_time_cfg_commands",
     "serial_flash_pad_type", "serial_clk_freq", "controller_misc_options",
     "flash_size"}

StatedOwnBytes(op) ==
    CASE op.name = "version"                 -> 4 .. 7
      [] op.name = "read_sample_clk_src"     -> {12}
      [] op.name = "cs_hold_time"            -> {13}
      [] op.name = "cs_setup_time"           -> {14}
      [] op.name = "column_address_width"    -> {15}
      [] op.name = "wait_time_cfg_commands"  -> 18 .. 19
      [] op.name = "controller_misc_options" -> 64 .. 67
      [] op.name = "serial_flash_pad_type"   -> {69}
      [] op.name = "serial_clk_freq"         -> {70}
      [] op.name = "flash_size" ->
            CASE op.region = "A1" -> 80 .. 83
              [] op.region = "A2" -> 84 .. 87
              [] op.region = "B1" -> 88 .. 91
              [] op.region = "B2" -> 92 .. 95

\* The block after the calls of `log`, starting from new(cb_lut).
RECURSIVE BlockAfter(_)
BlockAfter(log) ==
    IF log = <<>> THEN BlockNew(api, cb_lut)
    ELSE ApplySetter(BlockAfter(SubSeq(log, 1, Len(log) - 1)),
                     log[Len(log)])

SameField(op1, op2) == op1.name = op2.name /\ op1.region = op2.region

\* C15: each of the ten listed setters changes only the bytes of its own
\* field and leaves every other byte of the 448-byte block as it was; two
\* consecutive calls on different fields (or different flash regions) give
\* the same bytes in either order; and of two consecutive calls of the same
\* setter only the last one counts.
C15_SettersTouchOnlyOwnField ==
    (unit = "fcb" /\ cb_log # <<>> /\ cb_log[Len(cb_log)].name \in ListedSetters)
    =>
    LET n      == Len(cb_log)
        last   == cb_log[n]
        before == BlockAfter(SubSeq(cb_log, 1, n - 1))
        bytes  == BlockBytes(api, cb)
        old    == BlockBytes(api, before)
    IN  /\ Len(bytes) = 448
        /\ \A off \in 0 .. 447 :
               (off \notin StatedOwnBytes(last))
                   => ByteAt(bytes, off) = ByteAt(old, off)
        /\ (n >= 2 /\ cb_log[n - 1].name \in ListedSetters) =>
               LET prev  == cb_log[n - 1]
                   start == BlockAfter(SubSeq(cb_log, 1, n - 2))
               IN  IF SameField(prev, last)
                   THEN bytes = BlockBytes(api, ApplySetter(start, last))
                   ELSE bytes = BlockBytes(api,
                            ApplySetter(ApplySetter(start, last), prev))

\* flash_size(B1, 0x0080_0000) followed by serial_clk_freq(MHz100).
C15_Witness ==
    /\ unit = "fcb" /\ Len(cb_log) = 2
    /\ cb_log[1].name = "flash_size" /\ cb_log[1].region = "B1"
    /\ cb_log[1].arg = 8388608
    /\ cb_log[2].name = "serial_clk_freq" /\ cb_log[2].arg = "MHz100"
    /\ BytesAt(BlockBytes(api, cb), 88, 91) = <<0, 0, 128, 0>>
    /\ ByteAt(BlockBytes(api, cb), 70) = 6

\* The offsets stated for the fields of the packed block.
StatedOffsets ==
    <<<<"tag", 0>>, <<"version", 4>>, <<"read_sample_clk_src", 12>>,
      <<"cs_hold_time", 13>>, <<"cs_setup_time", 14>>,
      <<"column_address_width", 15>>, <<"device_mode_configuration", 16>>,
      <<"device_mode_sequence", 20>>, <<"device_mode_arg", 24>>,
      <<"device_type", 68>>, <<"serial_flash_pad_type", 69>>,
      <<"serial_clk_freq", 70>>, <<"serial_flash_sizes", 80>>,
      <<"lookup_table", 128>>, <<"lut_custom_seq", 384>>>>

\* C16: in the packed block the offset of each field, the sum of the sizes
\* of the fields declared before it, is tag 0x000, version 0x004,
\* readSampleClkSrc 0x00C, csHoldTime 0x00D, csSetupTime 0x00E,
\* columnAddressWidth 0x00F, deviceModeCfgEnable 0x010, deviceModeSeq 0x014,
\* deviceModeArg 0x018, deviceType 0x044, sFlashPadType 0x045, serialClkFreq
\* 0x046, flash sizes A1/A2/B1/B2 0x050/0x054/0x058/0x05C, lookup table
\* 0x080..0x17F, custom-sequence area 0x180..0x1AF; the sizes sum to 448;
\* and the bytes of every block value hold each field at that offset.
C16_FieldOffsets ==
    (unit = "fcb") =>
        LET bytes == BlockBytes(api, cb)
        IN  /\ SizeOfConfigurationBlock = 448
            /\ Len(bytes) = 448
            /\ \A k \in 1 .. Len(StatedOffsets) :
                   LET name == StatedOffsets[k][1]
                       off  == StatedOffsets[k][2]
                   IN  /\ OffsetOf(name) = off
                       /\ BytesAt(bytes, off, off + FieldSize(name) - 1)
                              = FieldMemory(api, cb, name)
            /\ \A r \in 0 .. 3 :
                   BytesAt(bytes, 80 + 4 * r, 83 + 4 * r)
                       = to_le_bytes(cb.serial_flash_sizes[r + 1], 4)
            /\ OffsetOf("lookup_table") + FieldSize("lookup_table") - 1 = 383
            /\ OffsetOf("lut_custom_seq") + FieldSize("lut_custom_seq") - 1
                   = 431

\* A block with flash size B2 and pad type set: both are found at their
\* offsets.
C16_Witness ==
    /\ unit = "fcb" /\ Len(cb_log) = 2
    /\ cb.serial_flash_sizes[4] = 2097152
    /\ cb.serial_flash_pad_type = 8
    /\ BytesAt(BlockBytes(api, cb), 92, 95) = <<0, 0, 32, 0>>
    /\ ByteAt(BlockBytes(api, cb), 69) = 8

\* The wait time passed to the last wait_time_cfg_commands call of `log`,
\* or 0 (disabled) without one.
RECURSIVE LastWaitTime(_)
LastWaitTime(log) ==
    IF log = <<>> THEN 0
    ELSE IF log[Len(log)].name = "wait_time_cfg_commands"
         THEN log[Len(log)].arg
         ELSE LastWaitTime(SubSeq(log, 1, Len(log) - 1))

\* The descriptor passed to the last device_mode_configuration(Enabled{..})
\* call of `log`, or four zero bytes without one.
RECURSIVE LastDeviceModeSeq(_)
LastDeviceModeSeq(log) ==
    IF log = <<>> THEN <<0, 0, 0, 0>>
    ELSE IF /\ log[Len(log)].name = "device_mode_configuration"
            /\ log[Len(log)].arg.enabled
         THEN log[Len(log)].arg.device_mode_seq
         ELSE LastDeviceModeSeq(SubSeq(log, 1, Len(log) - 1))

\* C17 as stated: waitTimeCfgCommands is the 2-byte little-endian field at
\* 0x013 (bytes 0x013..0x014) and deviceModeSeq the 4-byte field at 0x014.
C17_WaitTimeAt0x013 ==
    (unit = "fcb") =>
        LET bytes == BlockBytes(api, cb)
        IN  /\ BytesAt(bytes, 19, 20) = to_le_bytes(LastWaitTime(cb_log), 2)
            /\ BytesAt(bytes, 20, 23) = LastDeviceModeSeq(cb_log)

\* C17, amended: in the packed configuration blocks waitTimeCfgCommands is
\* the 2-byte little-endian field at 0x012 (bytes 0x012..0x013, after the one
\* reserved byte 0x011) and deviceModeSeq the 4-byte field at 0x014 (bytes
\* 0x014..0x017): the two fields share no byte.
C17_WaitTimeAt0x012 ==
    (unit = "fcb") =>
        LET bytes == BlockBytes(api, cb)
        IN  /\ OffsetOf("wait_time_cfg_commands") = 18
            /\ FieldSize("wait_time_cfg_commands") = 2
            /\ OffsetOf("device_mode_sequence") = 20
            /\ FieldSize("device_mode_sequence") = 4
            /\ BytesAt(bytes, 18, 19) = to_le_bytes(LastWaitTime(cb_log), 2)
            /\ BytesAt(bytes, 20, 23) = LastDeviceModeSeq(cb_log)

\* wait_time_cfg_commands(new(40_000)), the factor 400 = 0x0190, and device
\* mode enabled with the descriptor (count 1, index 2).
C17_Witness ==
    /\ unit = "fcb" /\ Len(cb_log) = 2
    /\ LastWaitTime(cb_log) = 400
    /\ LastDeviceModeSeq(cb_log) = <<1, 2, 0, 0>>
    /\ BytesAt(BlockBytes(api, cb), 17, 23) = <<0, 144, 1, 1, 2, 0, 0>>

\* The offsets stated to be reserved or to belong to a field without a
\* setter.
StatedReservedBytes ==
    (8 .. 11) \cup {17} \cup (29 .. 31) \cup (44 .. 47) \cup (60 .. 63)
        \cup (72 .. 79) \cup (432 .. 447)

\* configCmdEnable, configCmdSeqs, cfgCmdArgs, lutCustomSeqEnable, the pad
\* overrides, timeouts, busy offset / polarity and the custom-sequence area.
StatedSetterlessBytes ==
    {28} \cup (32 .. 43) \cup (48 .. 59) \cup {71} \cup (96 .. 127)
        \cup (384 .. 431)

\* C18: after new(lut) and any chain of setter calls every reserved byte
\* (0x008..0x00B, 0x011, 0x01D..0x01F, 0x02C..0x02F, 0x03C..0x03F,
\* 0x048..0x04F, 0x1B0..0x1BF) and every byte of a field without a public
\* setter is zero.
C18_ReservedBytesZero ==
    (unit = "fcb") =>
        LET bytes == BlockBytes(api, cb)
        IN  \A off \in StatedReservedBytes \cup StatedSetterlessBytes :
                ByteAt(bytes, off) = 0

\* A chain that sets the fields next to reserved bytes to non-zero values:
\* wait time 0x028F at 0x012 and device mode enabled.
C18_Witness ==
    /\ unit = "fcb" /\ Len(cb_log) = 2
    /\ cb.wait_time_cfg_commands = 655
    /\ cb.device_mode_configuration = 1
    /\ BytesAt(BlockBytes(api, cb), 16, 19) = <<1, 0, 143, 2>>
    /\ ByteAt(BlockBytes(api, cb), 17) = 0

(***************************************************************************)
(* Properties of the serial NOR block (checked under SpecNor).             *)
(***************************************************************************)
\* C19: nor::ConfigurationBlock::new applied to a FlexSPI block, whatever its
\* device_type, gives a NOR block whose deviceType byte (0x044) is 1, whose
\* page size (0x1C0..0x1C3) and sector size (0x1C4..0x1C7) are 0, whose
\* ipCmdSerialClkFreq (0x1C8) is 0, and whose bytes 0x000..0x1BF other than
\* byte 0x044 are those of the FlexSPI block.
C19_NorNewForcesDeviceType ==
    (unit = "nor" /\ Len(nor_log) = 1) =>
        LET bytes == NorBlockBytes(cfg_feature, nor)
            given == BlockBytes("flexspi", nor_input)
        IN  /\ nor_log[1].name = "new"
            /\ Len(given) = 448
            /\ ByteAt(bytes, 68) = 1
            /\ BytesAt(bytes, 448, 451) = <<0, 0, 0, 0>>
            /\ BytesAt(bytes, 452, 455) = <<0, 0, 0, 0>>
            /\ ByteAt(bytes, 456) = 0
            /\ \A off \in 0 .. 447 :
                   (off # 68) => ByteAt(bytes, off) = ByteAt(given, off)

\* new() on the i.MX RT 1020 EVK block whose device_type was 2.
C19_Witness ==
    /\ unit = "nor" /\ Len(nor_log) = 1
    /\ nor_input.device_type = 2
    /\ ByteAt(BlockBytes("flexspi", nor_input), 68) = 2
    /\ ByteAt(NorBlockBytes(cfg_feature, nor), 68) = 1
    /\ BytesAt(NorBlockBytes(cfg_feature, nor), 69, 70) = <<4, 6>>

\* The argument of the last call of the setter `name` in `log`, or `none`
\* without one.
RECURSIVE LastNorArg(_, _, _)
LastNorArg(log, name, none) ==
    IF log = <<>> THEN none
    ELSE IF log[Len(log)].name = name
         THEN log[Len(log)].arg
         ELSE LastNorArg(SubSeq(log, 1, Len(log) - 1), name, none)

\* The NOR block after the calls of `log`, which starts with new().
RECURSIVE NorAfter(_)
NorAfter(log) ==
    IF Len(log) = 1 THEN nor_ConfigurationBlock_new(cfg_feature, nor_input)
    ELSE ApplyNorSetter(NorAfter(SubSeq(log, 1, Len(log) - 1)),
                        log[Len(log)])

ListedNorSetters == {"page_size", "sector_size", "ip_cmd_serial_clk_freq"}

\* TRUE iff the last call is one of the three setters and changed no byte
\* outside own(name).
OnlyOwnNorBytesChanged(own(_)) ==
    (Len(nor_log) >= 2 /\ nor_log[Len(nor_log)].name \in ListedNorSetters) =>
        LET n     == Len(nor_log)
            bytes == NorBlockBytes(cfg_feature, nor)
            old   == NorBlockBytes(cfg_feature,
                                   NorAfter(SubSeq(nor_log, 1, n - 1)))
        IN  \A off \in 0 .. 511 :
                (off \notin own(nor_log[n].name))
                    => ByteAt(bytes, off) = ByteAt(old, off)

\* The bytes C20 states for each setter: three 4-byte fields.
StatedNorBytes(name) ==
    CASE name = "page_size"              -> 448 .. 451
      [] name = "sector_size"            -> 452 .. 455
      [] name = "ip_cmd_serial_clk_freq" -> 456 .. 459

\* The bytes of each setter's field in the packed struct.
OwnNorBytes(name) ==
    CASE name = "page_size"              -> 448 .. 451
      [] name = "sector_size"            -> 452 .. 455
      [] name = "ip_cmd_serial_clk_freq" -> {456}

\* C20 as stated: pageSize, sectorSize and ipCmdSerialClkFreq are three
\* 4-byte little-endian fields at 0x1C0, 0x1C4, 0x1C8, and each setter
\* changes only its field's four bytes, for every chip family.
C20_ThreeFourByteFields ==
    (unit = "nor" /\ nor # NoBlock) =>
        LET bytes == NorBlockBytes(cfg_feature, nor)
            freq  == LastNorArg(nor_log, "ip_cmd_serial_clk_freq", "NoChange")
        IN  /\ Len(bytes) = 512
            /\ BytesAt(bytes, 448, 451)
                   = to_le_bytes(LastNorArg(nor_log, "page_size", 0), 4)
            /\ BytesAt(bytes, 452, 455)
                   = to_le_bytes(LastNorArg(nor_log, "sector_size", 0), 4)
            /\ BytesAt(bytes, 456, 459)
                   = to_le_bytes(NorDiscriminant(cfg_feature, freq), 4)
            /\ OnlyOwnNorBytesChanged(StatedNorBytes)

\* C20, amended: pageSize and sectorSize are 4-byte little-endian fields at
\* 0x1C0 and 0x1C4 and ipCmdSerialClkFreq is a 1-byte field at 0x1C8; each
\* of page_size, sector_size and ip_cmd_serial_clk_freq changes only its own
\* bytes (0x1C0..0x1C3, 0x1C4..0x1C7, 0x1C8) and leaves all other bytes of
\* the 512-byte block unchanged, for every chip family.  Bytes 0x1C9..0x1CB
\* belong to the extras: they are zero on families without the extras tail
\* (the four bytes at 0x1C8 then read as the little-endian code), while with
\* the imxrt1170 / imxrt1180 features byte 0x1C9 is isUniformBlockSize.
C20_NorFieldsAndFrame ==
    (unit = "nor" /\ nor # NoBlock) =>
        LET bytes == NorBlockBytes(cfg_feature, nor)
            freq  == LastNorArg(nor_log, "ip_cmd_serial_clk_freq", "NoChange")
        IN  /\ Len(bytes) = 512
            /\ BytesAt(bytes, 448, 451)
                   = to_le_bytes(LastNorArg(nor_log, "page_size", 0), 4)
            /\ BytesAt(bytes, 452, 455)
                   = to_le_bytes(LastNorArg(nor_log, "sector_size", 0), 4)
            /\ ByteAt(bytes, 456) = NorDiscriminant(cfg_feature, freq)
            /\ OnlyOwnNorBytesChanged(OwnNorBytes)
            /\ IF HasImxrt11xxExtras(cfg_feature)
               THEN ByteAt(bytes, 457) = nor.extras.is_uniform_block_size
               ELSE BytesAt(bytes, 456, 459)
                        = to_le_bytes(NorDiscriminant(cfg_feature, freq), 4)

\* With the imxrt1170 feature: page_size(256), then
\* ip_cmd_serial_clk_freq(MHz133), code 7, next to isUniformBlockSize = 1.
C20_Witness ==
    /\ unit = "nor" /\ cfg_feature = "imxrt1170" /\ Len(nor_log) = 3
    /\ nor_log[2].name = "page_size" /\ nor_log[2].arg = 256
    /\ nor_log[3].name = "ip_cmd_serial_clk_freq" /\ nor_log[3].arg = "MHz133"
    /\ BytesAt(NorBlockBytes(cfg_feature, nor), 448, 459)
           = <<0, 1, 0, 0, 0, 0, 0, 0, 7, 1, 0, 0>>

\* TRUE iff `name` is the name of one of the calls of nor_log.
NorCalled(name) == \E i \in 1 .. Len(nor_log) : nor_log[i].name = name

\* C21: with the extras tail (imxrt1170 / imxrt1180) a new NOR block has
\* isUniformBlockSize = 1 (byte 0x1C9) and blockSize = 0; block_size(b) sets
\* isUniformBlockSize to 0 and the 32-bit blockSize at 0x1D0 to b and changes
\* no other byte, so after any builder chain isUniformBlockSize is 0 iff
\* block_size was called at least once.
C21_BlockSizeClearsUniform ==
    (unit = "nor" /\ nor # NoBlock /\ HasImxrt11xxExtras(cfg_feature)) =>
        LET n     == Len(nor_log)
            bytes == NorBlockBytes(cfg_feature, nor)
            old   == NorBlockBytes(cfg_feature,
                                   NorAfter(SubSeq(nor_log, 1, n - 1)))
        IN  /\ (n = 1) => /\ ByteAt(bytes, 457) = 1
                          /\ BytesAt(bytes, 464, 467) = <<0, 0, 0, 0>>
            /\ ByteAt(bytes, 457) \in {0, 1}
            /\ (ByteAt(bytes, 457) = 0) <=> NorCalled("block_size")
            /\ BytesAt(bytes, 464, 467)
                   = to_le_bytes(LastNorArg(nor_log, "block_size", 0), 4)
            /\ (n >= 2 /\ nor_log[n].name = "block_size") =>
                   \A off \in 0 .. 511 :
                       (off \notin ({457} \cup (464 .. 467)))
                           => ByteAt(bytes, off) = ByteAt(old, off)

\* With the imxrt1170 feature: sector_size(4096), then block_size(65536).
C21_Witness ==
    /\ unit = "nor" /\ cfg_feature = "imxrt1170" /\ Len(nor_log) = 3
    /\ nor_log[2].name = "sector_size" /\ nor_log[2].arg = 4096
    /\ nor_log[3].name = "block_size" /\ nor_log[3].arg = 65536
    /\ ByteAt(NorBlockBytes(cfg_feature, nor), 457) = 0
    /\ BytesAt(NorBlockBytes(cfg_feature, nor), 464, 467) = <<0, 0, 1, 0>>
    /\ BytesAt(NorBlockBytes(cfg_feature, nor), 452, 455) = <<0, 16, 0, 0>>

\* C22: for every chip family and every builder chain the NOR block is
\* exactly 512 bytes (448 + 4 + 4 + 1 + 55); on the families without the
\* extras tail block_size is never among the calls made and the 55 trailing
\* bytes 0x1C9..0x1FF are all zero.
C22_Always512AndZeroTail ==
    (unit = "nor" /\ nor # NoBlock) =>
        LET bytes == NorBlockBytes(cfg_feature, nor)
        IN  /\ Len(bytes) = 512
            /\ Len(bytes) = 448 + 4 + 4 + 1 + 55
            /\ Len(BlockBytes("flexspi", nor.mem_cfg)) = 448
            /\ Len(ExtrasMemory(cfg_feature, nor.extras)) = 55
            /\ (cfg_feature \notin {"imxrt1170", "imxrt1180"}) =>
                   /\ ~NorCalled("block_size")
                   /\ \A off \in 457 .. 511 : ByteAt(bytes, off) = 0

\* With the imxrt1060 feature: page_size(256), then
\* ip_cmd_serial_clk_freq(MHz166), code 9, and a zero tail.
C22_Witness ==
    /\ unit = "nor" /\ cfg_feature = "imxrt1060" /\ Len(nor_log) = 3
    /\ nor_log[2].name = "page_size"
    /\ nor_log[3].name = "ip_cmd_serial_clk_freq" /\ nor_log[3].arg = "MHz166"
    /\ Len(NorBlockBytes(cfg_feature, nor)) = 512
    /\ BytesAt(NorBlockBytes(cfg_feature, nor), 456, 459) = <<9, 0, 0, 0>>

\* The offsets outside the lookup table that hold a field assigned by the
\* constructors or by a setter of the chains drawn: tag, version,
\* readSampleClkSrc .. columnAddressWidth, deviceType .. serialClkFreq,
\* sflashA1Size, pageSize, sectorSize, ipCmdSerialClkFreq and, with the
\* extras tail, isUniformBlockSize and blockSize.
AssignedNorBytes ==
    (0 .. 7) \cup (12 .. 15) \cup (68 .. 70) \cup (80 .. 83)
        \cup (448 .. 456)
        \cup (IF HasImxrt11xxExtras(cfg_feature)
              THEN {457} \cup (464 .. 467) ELSE {})

\* C23: in the serialized NOR block instruction j of lookup-table slot i
\* occupies bytes 0x080 + 16*i + 2*j and +1; a block whose Read command is
\* CMD(0xEB, 1 pad), RADDR(0x18, 4 pads), DUMMY(0x06, 4 pads),
\* READ(0x04, 4 pads) has EB 04 18 0A 06 32 04 26 at 0x080..0x087 and zeros
\* up to 0x08F; deviceType, sFlashPadType, serialClkFreq are at
\* 0x044..0x046, the flash A1 size at 0x050, the page size at 0x1C0, the
\* sector size at 0x1C4; every byte outside the assigned fields and
\* sequences is zero.
C23_EndToEndNorBytes ==
    (unit = "nor" /\ nor # NoBlock) =>
        LET bytes == NorBlockBytes(cfg_feature, nor)
            slots == nor_input.lookup_table.slots
            read  == <<<<235, 4>>, <<24, 10>>, <<6, 50>>, <<4, 38>>,
                       <<0, 0>>, <<0, 0>>, <<0, 0>>, <<0, 0>>>>
        IN  /\ \A i \in 0 .. 15, j \in 0 .. 7 :
                   <<ByteAt(bytes, 128 + 16 * i + 2 * j),
                     ByteAt(bytes, 128 + 16 * i + 2 * j + 1)>>
                       = slots[i + 1][j + 1]
            /\ (slots[1] = read) =>
                   BytesAt(bytes, 128, 143)
                       = <<235, 4, 24, 10, 6, 50, 4, 38,
                           0, 0, 0, 0, 0, 0, 0, 0>>
            /\ ByteAt(bytes, 68) = 1
            /\ ByteAt(bytes, 69) = nor_input.serial_flash_pad_type
            /\ ByteAt(bytes, 70) = nor_input.serial_clk_freq
            /\ BytesAt(bytes, 80, 83)
                   = to_le_bytes(nor_input.serial_flash_sizes[1], 4)
            /\ BytesAt(bytes, 448, 451)
                   = to_le_bytes(LastNorArg(nor_log, "page_size", 0), 4)
            /\ BytesAt(bytes, 452, 455)
                   = to_le_bytes(LastNorArg(nor_log, "sector_size", 0), 4)
            /\ \A off \in (0 .. 127) \cup (384 .. 511) :
                   (off \notin AssignedNorBytes) => ByteAt(bytes, off) = 0

\* The i.MX RT 1020 EVK block: new(), page_size(256), sector_size(4096) on
\* the FlexSPI block with the quad read sequence, 100 MHz and 8 MiB at A1,
\* and with the write-enable sequence of the second table at 0x0B0.
C23_Witness ==
    /\ unit = "nor" /\ cfg_feature = "imxrt1020" /\ Len(nor_log) = 3
    /\ nor_log[2].name = "page_size" /\ nor_log[3].name = "sector_size"
    /\ LET bytes == NorBlockBytes(cfg_feature, nor)
       IN  /\ BytesAt(bytes, 0, 15)
                  = <<70, 67, 70, 66, 0, 4, 1, 86, 0, 0, 0, 0, 1, 3, 3, 0>>
           /\ BytesAt(bytes, 68, 71) = <<1, 4, 6, 0>>
           /\ BytesAt(bytes, 80, 83) = <<0, 0, 128, 0>>
           /\ BytesAt(bytes, 128, 135) = <<235, 4, 24, 10, 6, 50, 4, 38>>
           /\ BytesAt(bytes, 448, 459)
                  = <<0, 1, 0, 0, 0, 16, 0, 0, 0, 0, 0, 0>>

(***************************************************************************)
(* Further properties of the FlexSPI configuration block (SpecFcb).        *)
(***************************************************************************)
\* The argument of the last call of the setter `name` in the setter log, or
\* `none` without one.
RECURSIVE LastArg(_, _, _)
LastArg(log, name, none) ==
    IF log = <<>> THEN none
    ELSE IF log[Len(log)].name = name
         THEN log[Len(log)].arg
         ELSE LastArg(SubSeq(log, 1, Len(log) - 1), name, none)

\* The major / minor / bugfix values the version arithmetic is checked for.
VersionBytes == {0, 1, 4, 9, 86, 127, 128, 255}

\* C24: Version::new(major, minor, bugfix) is
\* ('V' << 24) | (major << 16) | (minor << 8) | bugfix for 8-bit arguments
\* (Version::new(1,0,0) = 0x56010000, Version::new(1,4,0) = 0x56010400);
\* stored little-endian at 0x004 the bytes are bugfix, minor, major, 'V';
\* version(v) replaces only these four bytes.
C24_VersionWord ==
    (unit = "fcb") =>
        LET n     == Len(cb_log)
            bytes == BlockBytes(api, cb)
            v     == LastArg(cb_log, "version", 1442906112)
        IN  /\ (n = 0) =>
                   \A major, minor, bugfix \in VersionBytes :
                       LET w == Version_new(major, minor, bugfix)
                       IN  /\ w = 86 * 16777216 + major * 65536
                                     + minor * 256 + bugfix
                           /\ to_le_bytes(w, 4) = <<bugfix, minor, major, 86>>
            /\ Version_new(1, 0, 0) = 1442906112
            /\ Version_new(1, 4, 0) = 1442907136
            /\ BytesAt(bytes, 4, 7)
                   = <<v % 256, (v \div 256) % 256, (v \div 65536) % 256, 86>>
            /\ (n >= 1 /\ cb_log[n].name = "version") =>
                   LET old == BlockBytes(api,
                                  BlockAfter(SubSeq(cb_log, 1, n - 1)))
                   IN  \A off \in 0 .. 447 :
                           (off \notin 4 .. 7)
                               => ByteAt(bytes, off) = ByteAt(old, off)

\* cs_hold_time(255), then version(Version::new(1, 4, 0)): bytes
\* 00 04 01 56 at 0x004 and the hold time kept.
C24_Witness ==
    /\ unit = "fcb" /\ Len(cb_log) = 2
    /\ cb_log[1].name = "cs_hold_time" /\ cb_log[1].arg = 255
    /\ cb_log[2].name = "version" /\ cb_log[2].arg = 1442907136
    /\ BytesAt(BlockBytes(api, cb), 4, 7) = <<0, 4, 1, 86>>
    /\ ByteAt(BlockBytes(api, cb), 13) = 255

\* C25: device_mode_configuration(Enabled{device_mode_seq, device_mode_arg})
\* sets deviceModeCfgEnable (byte 0x010) to 1, writes the descriptor
\* DeviceModeSequence::new(count, index) as the bytes [count, index, 0, 0] at
\* 0x014 and device_mode_arg little-endian at 0x018;
\* device_mode_configuration(Disabled) sets byte 0x010 to 0.  The packed
\* struct and the (index << 8 | count) little-endian word give the same four
\* bytes for every 8-bit count and index.
C25_DeviceModeConfiguration ==
    (unit = "fcb") =>
        LET n     == Len(cb_log)
            bytes == BlockBytes(api, cb)
        IN  /\ (n = 0) =>
                   \A count \in U8, index \in U8 :
                       /\ DeviceModeSequence_new(count, index)
                              = <<count, index, 0, 0>>
                       /\ DeviceModeSequence_new_word(count, index)
                              = <<count, index, 0, 0>>
            /\ (n >= 1 /\ cb_log[n].name = "device_mode_configuration") =>
                   LET mode == cb_log[n].arg
                       old  == BlockBytes(api,
                                   BlockAfter(SubSeq(cb_log, 1, n - 1)))
                       own  == IF mode.enabled THEN {16} \cup (20 .. 27)
                               ELSE {16}
                   IN  /\ IF mode.enabled
                          THEN /\ ByteAt(bytes, 16) = 1
                               /\ BytesAt(bytes, 20, 23) = mode.device_mode_seq
                               /\ BytesAt(bytes, 24, 27)
                                      = to_le_bytes(mode.device_mode_arg, 4)
                          ELSE ByteAt(bytes, 16) = 0
                       /\ \A off \in 0 .. 447 :
                              (off \notin own)
                                  => ByteAt(bytes, off) = ByteAt(old, off)

\* Enabled with the descriptor (count 255, index 15) and the argument
\* 0x01020304, after a wait time of 400.
C25_Witness ==
    /\ unit = "fcb" /\ Len(cb_log) = 2
    /\ cb_log[1].name = "wait_time_cfg_commands" /\ cb_log[1].arg = 400
    /\ cb_log[2].name = "device_mode_configuration"
    /\ cb_log[2].arg.enabled
    /\ BytesAt(BlockBytes(api, cb), 16, 27)
           = <<1, 0, 144, 1, 255, 15, 0, 0, 4, 3, 2, 1>>

\* The device_mode_arg passed to the last
\* device_mode_configuration(Enabled{..}) call of `log`, or 0 without one.
RECURSIVE LastDeviceModeArg(_)
LastDeviceModeArg(log) ==
    IF log = <<>> THEN 0
    ELSE IF /\ log[Len(log)].name = "device_mode_configuration"
            /\ log[Len(log)].arg.enabled
         THEN log[Len(log)].arg.device_mode_arg
         ELSE LastDeviceModeArg(SubSeq(log, 1, Len(log) - 1))

\* TRUE iff the last call of the setter log is
\* device_mode_configuration(Disabled).
LastCallDisables ==
    /\ cb_log # <<>>
    /\ cb_log[Len(cb_log)].name = "device_mode_configuration"
    /\ ~cb_log[Len(cb_log)].arg.enabled

\* C27 as stated: after device_mode_configuration(Disabled), whatever calls
\* preceded it, deviceModeCfgEnable is 0 and the deviceModeSeq bytes
\* (0x014..0x017) and deviceModeArg bytes (0x018..0x01B) are all zero.
C27_DisabledZeroesDeviceMode ==
    (unit = "fcb" /\ LastCallDisables) =>
        LET bytes == BlockBytes(api, cb)
        IN  /\ ByteAt(bytes, 16) = 0
            /\ BytesAt(bytes, 20, 27) = <<0, 0, 0, 0, 0, 0, 0, 0>>

\* C27, amended: device_mode_configuration(Disabled) sets
\* deviceModeCfgEnable (byte 0x010) to 0 and changes no other byte: the
\* deviceModeSeq bytes (0x014..0x017) and deviceModeArg bytes
\* (0x018..0x01B) keep the descriptor and argument of the last preceding
\* device_mode_configuration(Enabled{..}) call (zero if there was none).
C27_DisabledClearsOnlyEnable ==
    (unit = "fcb" /\ LastCallDisables) =>
        LET n     == Len(cb_log)
            bytes == BlockBytes(api, cb)
            old   == BlockBytes(api, BlockAfter(SubSeq(cb_log, 1, n - 1)))
        IN  /\ ByteAt(bytes, 16) = 0
            /\ BytesAt(bytes, 20, 23) = LastDeviceModeSeq(cb_log)
            /\ BytesAt(bytes, 24, 27)
                   = to_le_bytes(LastDeviceModeArg(cb_log), 4)
            /\ \A off \in 0 .. 447 :
                   (off # 16) => ByteAt(bytes, off) = ByteAt(old, off)

\* Enabled with the descriptor (count 1, index 2) and the argument 64, then
\* Disabled: the flag is 0, the descriptor and the argument stay.
C27_Witness ==
    /\ unit = "fcb" /\ Len(cb_log) = 2 /\ LastCallDisables
    /\ cb_log[1].name = "device_mode_configuration" /\ cb_log[1].arg.enabled
    /\ BytesAt(BlockBytes(api, cb), 16, 27)
           = <<0, 0, 0, 0, 1, 2, 0, 0, 64, 0, 0, 0>>

(***************************************************************************)
(* Properties of the wait time constructors and of FCBBuilder (checked     *)
(* under SpecBuilder).                                                     *)
(***************************************************************************)
\* TRUE iff f is floor(us / 100).
IsFactorOf(f, us) == f * 100 <= us /\ us < (f + 1) * 100

\* C26: the wait-time field is the factor floor(microseconds / 100):
\* from_duration(d) returns None exactly when the factor is 0 (d < 100 us) or
\* exceeds 65535, and Some(factor) otherwise; disable() is the factor 0;
\* new(wait_time_us) is floor(wait_time_us / 100) for every 16-bit
\* wait_time_us (new(40_000) is 400).
C26_WaitTimeFactor ==
    (unit = "builder") =>
        /\ WaitTimeConfigurationCommands_disable = 0
        /\ WaitTimeConfigurationCommands_new(40000) = 400
        /\ (wt.fn = "none") =>
               \A us \in 0 .. 65535 :
                   IsFactorOf(WaitTimeConfigurationCommands_new(us), us)
        /\ (wt.fn = "new") => /\ wt.result.some
                              /\ IsFactorOf(wt.result.v, wt.us)
        /\ (wt.fn = "from_duration") =>
               LET us     == wt.d.secs * 1000000 + wt.d.nanos \div 1000
                   factor == us \div 100
               IN  /\ IsFactorOf(factor, us)
                   /\ (factor = 0) <=> (us < 100)
                   /\ (~wt.result.some) <=> (factor = 0 \/ factor > 65535)
                   /\ wt.result.some =>
                          /\ wt.result.v = factor
                          /\ wt.result.v \in 1 .. 65535

\* from_duration(6.553599999 s) is Some(65535), the largest factor.
C26_Witness ==
    /\ unit = "builder" /\ wt.fn = "from_duration"
    /\ wt.d = [secs |-> 6, nanos |-> 553599999]
    /\ wt.result = [some |-> TRUE, v |-> 65535]

\* The bytes [offset, offset + length) of the write w.
WriteRange(w) == w.offset .. (w.offset + Len(w.bytes) - 1)

\* C30: in FCBBuilder::build, for every builder configuration (device mode
\* enabled or disabled), the byte ranges written by distinct fields are
\* pairwise disjoint and lie within the 512-byte block.
C30_BuildWritesDisjoint ==
    (unit = "builder" /\ fb_writes # <<>>) =>
        /\ \A i \in 1 .. Len(fb_writes) :
               WriteRange(fb_writes[i]) \subseteq 0 .. 511
        /\ \A i, j \in 1 .. Len(fb_writes) :
               (i # j) =>
                   WriteRange(fb_writes[i]) \cap WriteRange(fb_writes[j]) = {}

(***************************************************************************)
(* Further properties of instructions (SpecInstr) and of the lookup table  *)
(* (SpecLut).                                                              *)
(***************************************************************************)
\* C28: every opcode the library defines (SDR 0x01..0x0D, the DDR variants
\* = SDR code + 0x20, STOP = 0x00, JUMP_ON_CS = 0x1F) is below 64, so
\* (opcode << 2) | pads loses no bit in byte 1, and Instr::new is injective
\* over the defined opcodes, the four pad widths and all operands.
C28_DefinedOpcodesInjective ==
    (unit = "instr") =>
        /\ \A op \in DefinedOpcodes : op < 64
        /\ SdrOpcodes = 1 .. 13
        /\ DdrOpcodes = {op + 32 : op \in 1 .. 13}
        /\ OPCODE_STOP = 0 /\ OPCODE_JUMP_ON_CS = 31
        /\ (instr # <<>> /\ opcode \in DefinedOpcodes) =>
               /\ instr[1] = operand
               /\ instr[2] = 4 * opcode + PadCode[pads]
               /\ instr[2] \div 4 = opcode
               /\ \A op2 \in DefinedOpcodes, p2 \in Pads :
                      (Instr_new(op2, p2, operand) = instr)
                          => (op2 = opcode /\ p2 = pads)
               /\ \A a2 \in {0, (operand + 1) % 256, 255 - operand} :
                      (Instr_new(opcode, pads, a2) = instr) => (a2 = operand)

\* The largest defined opcode, DDR DUMMY_RWDS = 0x2D, on eight pads with
\* operand 0xFF: FF B7.
C28_Witness ==
    /\ unit = "instr"
    /\ opcode = to_ddr(13) /\ pads = "Eight" /\ operand = 255
    /\ instr = <<255, 183>>

\* C29: custom_command(index, seq) succeeds for every index in 0..15 and
\* fails (out-of-bounds) for every index >= 16, so no table with more than
\* 16 slots and no write outside the 256-byte table is ever produced: a
\* failed call leaves every slot as the earlier assignments made it.
C29_CustomCommandBounds ==
    (unit = "lut") =>
        LET bytes == LookupTableBytes(lut.slots)
        IN  /\ Len(lut.slots) = 16
            /\ Len(bytes) = 256
            /\ (lut_op.name = "custom_command") =>
                  /\ (lut_op.index \in 0 .. 15) =>
                        /\ ~lut.panicked
                        /\ lut.slots[lut_op.index + 1] = lut_op.seq
                  /\ (lut_op.index >= 16) => lut.panicked
            /\ lut.panicked =>
                  /\ lut_op.name = "custom_command"
                  /\ lut_op.index >= 16
                  /\ \A i \in 0 .. 15 :
                         SlotBytes(bytes, i) = ExpectedSlotBytes(lut_last, i)

\* custom_command(15, s1) succeeds, then custom_command(16, s2) fails and
\* the table still holds s1 in its last slot.
C29_Witness ==
    /\ unit = "lut" /\ calls = 2
    /\ lut_op.name = "custom_command" /\ lut_op.index = 16
    /\ lut_op.seq = SampleSequences[2]
    /\ lut.panicked
    /\ lut_last[15] = SampleSequences[1]
    /\ lut.slots[16] = SampleSequences[1]
    /\ Len(LookupTableBytes(lut.slots)) = 256

====
